---- MODULE Spec2Model ----
(***************************************************************************)
(* TMapBase / TSortableMapBase / TMap over a TSet of key-value pairs.      *)
(*                                                                         *)
(* The map methods are translated from the map header.  The element set    *)
(* (TSet over a TSparseArray with a free list and hash buckets) is not     *)
(* part of the sources; it is modelled from its documented contract:       *)
(* stable slot identifiers, a free list of removed slots, hash-bucket      *)
(* chaining, rehash after reordering.                                      *)
(*                                                                         *)
(* Slot identifiers: the model numbers slots 1..Len(Data); identifier i of *)
(* the model is index i-1 of the program, and NoId (0) is INDEX_NONE.      *)
(***************************************************************************)
EXTENDS Integers, Sequences, FiniteSets, TLC

\* ------------------------------------------------------------------ bounds
MaxKey == 3
MaxVal == 2
MaxCmpKey == 2
MaxCmpSlots == 2
MaxReserve == 3
MaxFiles == 3
MaxCalls == 8

Keys == 1..MaxKey
CmpKeys == 1..MaxCmpKey
Vals == 1..MaxVal

\* ------------------------------------------------------- key strategy
\* The key strategy tells key objects apart less finely than they are: the
\* objects k and k + KeyStride are distinct and equal as keys (as two
\* spellings of a name that is compared without regard to case).
KeyStride == 8

KeyClass(k) == k % KeyStride

\* KeyFuncs::GetKeyHash: a pluggable hash; equal keys hash equally, distinct
\* keys may collide (2 and 3 do).
GetKeyHash(k) == KeyClass(k) \div 2

\* KeyFuncs::Matches
Matches(a, b) == KeyClass(a) = KeyClass(b)

\* ValueType(): the default-constructed value
DefaultValue == 0

\* ------------------------------------------------------- element set (TSet)
NoId == 0

FreeSlot == [alloc |-> FALSE, key |-> 0, val |-> 0]

Element(k, v) == [alloc |-> TRUE, key |-> k, val |-> v]

\* Data: the sparse array's slots; Free: the free list, head first;
\* HashSize: number of buckets; Hash: per bucket the chain of slot ids, head first.
EmptySet == [Data |-> <<>>, Free |-> <<>>, HashSize |-> 0, Hash |-> <<>>]

SetNum(S) == Len(S.Data) - Len(S.Free)

SetGetMaxIndex(S) == Len(S.Data)

SetIsValidId(S, id) == id \in 1..Len(S.Data) /\ S.Data[id].alloc

\* The live slot ids in iteration order (ascending slot index).
LiveIds(S) ==
    LET idx == [i \in 1..Len(S.Data) |-> i]
        IsLive(i) == S.Data[i].alloc
    IN SelectSeq(idx, IsLive)

\* TSetAllocator's hash sizing parameters
AverageNumberOfElementsPerHashBucket == 2
BaseNumberOfHashBuckets == 8
MinNumberOfHashedElements == 4

RoundUpToPowerOfTwo(n) ==
    CHOOSE p \in {2^i : i \in 0..10} : p >= n /\ \A q \in {2^i : i \in 0..10} : q >= n => p <= q

GetNumberOfHashBuckets(n) ==
    IF n >= MinNumberOfHashedElements
    THEN RoundUpToPowerOfTwo(n \div AverageNumberOfElementsPerHashBucket + BaseNumberOfHashBuckets)
    ELSE 1

\* Bucket of a hash: KeyHash & (HashSize - 1), HashSize a power of two.
\* Buckets are numbered from 1 in the model.
BucketOf(S, h) == (h % S.HashSize) + 1

\* LinkElement: the element becomes the head of its bucket's chain.
LinkElement(S, id, h) ==
    [S EXCEPT !.Hash[BucketOf(S, h)] = <<id>> \o @]

RECURSIVE RehashLoop(_, _, _)
RehashLoop(S, ids, i) ==
    IF i > Len(ids) THEN S
    ELSE RehashLoop(LinkElement(S, ids[i], GetKeyHash(S.Data[ids[i]].key)), ids, i + 1)

\* Rehash: empty every bucket, then link every live element in iteration order.
Rehash(S) ==
    LET Cleared == [S EXCEPT !.Hash = [b \in 1..S.HashSize |-> <<>>]]
    IN RehashLoop(Cleared, LiveIds(S), 1)

ShouldRehash(S, n, Desired, bAllowShrinking) ==
    n > 0 /\ (S.HashSize = 0 \/ S.HashSize < Desired \/ (S.HashSize > Desired /\ bAllowShrinking))

\* ConditionalRehash: [S, done]
ConditionalRehash(S, n, bAllowShrinking) ==
    LET Desired == GetNumberOfHashBuckets(n)
    IN IF ShouldRehash(S, n, Desired, bAllowShrinking)
       THEN [S |-> Rehash([S EXCEPT !.HashSize = Desired]), done |-> TRUE]
       ELSE [S |-> S, done |-> FALSE]

RECURSIVE ChainFind(_, _, _, _)
ChainFind(S, chain, i, k) ==
    IF i > Len(chain) THEN NoId
    ELSE IF Matches(S.Data[chain[i]].key, k) THEN chain[i]
    ELSE ChainFind(S, chain, i + 1, k)

\* TSet::FindIdByHash
SetFindIdByHash(S, h, k) ==
    IF SetNum(S) = 0 THEN NoId
    ELSE ChainFind(S, S.Hash[BucketOf(S, h)], 1, k)

\* TSet::FindId
SetFindId(S, k) == SetFindIdByHash(S, GetKeyHash(k), k)

\* TSparseArray::AddUninitialized: reuse the head of the free list, else append.
AddUninitialized(S) ==
    IF Len(S.Free) > 0
    THEN [S |-> [S EXCEPT !.Free = Tail(@)], Index |-> Head(S.Free)]
    ELSE [S |-> [S EXCEPT !.Data = Append(@, FreeSlot)], Index |-> Len(S.Data) + 1]

\* TSparseArray::RemoveAtUninitialized: the slot becomes the head of the free list.
RemoveAtUninitialized(S, id) ==
    [S EXCEPT !.Data[id] = FreeSlot, !.Free = <<id>> \o @]

\* TSet::EmplaceByHash: [S, id].  The new element is constructed in a fresh slot
\* first; when an equal key is already stored the existing pair is replaced in
\* place (value updated, key retained) and the fresh slot is released again.
SetEmplaceByHash(S, h, k, v) ==
    LET a == AddUninitialized(S)
        S1 == [a.S EXCEPT !.Data[a.Index] = Element(k, v)]
        Existing == IF SetNum(S1) # 1 THEN SetFindIdByHash(S1, h, k) ELSE NoId
    IN IF Existing # NoId
       THEN [S |-> RemoveAtUninitialized([S1 EXCEPT !.Data[Existing].val = v], a.Index),
             id |-> Existing]
       ELSE LET r == ConditionalRehash(S1, SetNum(S1), FALSE)
            IN [S |-> IF r.done THEN r.S ELSE LinkElement(S1, a.Index, h),
                id |-> a.Index]

\* TSet::Emplace
SetEmplace(S, k, v) == SetEmplaceByHash(S, GetKeyHash(k), k, v)

\* Unlink a slot from its bucket chain.
SetUnlink(S, id) ==
    LET NotId(x) == x # id
    IN [S EXCEPT !.Hash = [b \in 1..S.HashSize |-> SelectSeq(S.Hash[b], NotId)]]

\* TSet::Remove(FSetElementId)
SetRemoveId(S, id) == RemoveAtUninitialized(SetUnlink(S, id), id)

\* TSet::RemoveByHash: [S, ret]; without duplicate keys at most one pair goes.
SetRemoveByHash(S, h, k) ==
    LET id == SetFindIdByHash(S, h, k)
    IN IF id = NoId THEN [S |-> S, ret |-> 0]
       ELSE [S |-> SetRemoveId(S, id), ret |-> 1]

\* TSet::Remove(Key)
SetRemove(S, k) == SetRemoveByHash(S, GetKeyHash(k), k)

\* TSet::Reset: drops every element, keeps slots' storage and the bucket array.
SetReset(S) ==
    IF SetNum(S) = 0 THEN S
    ELSE [S EXCEPT !.Data = <<>>, !.Free = <<>>,
                   !.Hash = [b \in 1..S.HashSize |-> <<>>]]

\* TSet::Relax: rehash when the bucket count differs from the desired one,
\* shrinking allowed.
SetRelax(S) == ConditionalRehash(S, SetNum(S), TRUE).S

\* TSparseArray::Reserve: the slots are extended to n free slots, linked so
\* that the lowest new slot is the head of the free list.
SparseReserve(S, n) ==
    IF n > Len(S.Data)
    THEN [S EXCEPT !.Data = @ \o [i \in 1..(n - Len(S.Data)) |-> FreeSlot],
                   !.Free = [i \in 1..(n - Len(S.Data)) |-> Len(S.Data) + i] \o @]
    ELSE S

\* TSet::Reserve: room for Number elements and a bucket array sized for them.
SetReserve(S, Number) ==
    IF Number > SetNum(S)
    THEN LET E == SparseReserve(S, Number)
             NewHashSize == GetNumberOfHashBuckets(Number)
         IN IF E.HashSize = 0 \/ E.HashSize < NewHashSize
            THEN Rehash([E EXCEPT !.HashSize = NewHashSize])
            ELSE E
    ELSE S

\* TSparseArray::Shrink: the free slots after the last live slot are dropped.
SparseShrink(S) ==
    LET live == {i \in 1..Len(S.Data) : S.Data[i].alloc}
        MaxAllocatedIndex == IF live = {} THEN 0 ELSE CHOOSE i \in live : \A j \in live : j <= i
        Kept(f) == f <= MaxAllocatedIndex
    IN [S EXCEPT !.Data = SubSeq(@, 1, MaxAllocatedIndex), !.Free = SelectSeq(@, Kept)]

\* TSet::Shrink
SetShrink(S) == SetRelax(SparseShrink(S))

\* The allocator's slack policy (DefaultCalculateSlackGrow / Reserve): the
\* first allocation has room for FirstGrow slots, or for exactly the number
\* asked for when that is more; later growth over-allocates by 3/8 plus
\* ConstantGrow; a reservation or a Shrink allocates exactly what is asked.
FirstGrow == 4
ConstantGrow == 16

DefaultCalculateSlackGrow(NumElements, NumAllocatedElements) ==
    IF NumAllocatedElements # 0 THEN NumElements + (3 * NumElements) \div 8 + ConstantGrow
    ELSE IF NumElements > FirstGrow THEN NumElements
    ELSE FirstGrow

DefaultCalculateSlackReserve(NumElements) == NumElements

\* TSizedHeapAllocator: the slack queries forward to the default policy; the
\* size of an allocation is its slots times the bytes of one.
CalculateSlackGrow(NumElements, NumAllocatedElements) ==
    DefaultCalculateSlackGrow(NumElements, NumAllocatedElements)

CalculateSlackReserve(NumElements) == DefaultCalculateSlackReserve(NumElements)

AllocatorGetAllocatedSize(NumAllocatedElements, NumBytesPerElement) ==
    NumAllocatedElements * NumBytesPerElement

\* TArray::ResizeGrow: the slots allocated once the array holds NewNum slots.
ResizeGrow(NumAllocatedElements, NewNum) ==
    IF NewNum > NumAllocatedElements
    THEN CalculateSlackGrow(NewNum, NumAllocatedElements)
    ELSE NumAllocatedElements

\* TArray::Shrink: the slots allocated once the slack is given back.
ResizeShrink(NumAllocatedElements, Num) ==
    IF NumAllocatedElements # Num THEN CalculateSlackReserve(Num) ELSE NumAllocatedElements

\* sizeof(TSetElement<TPair<int32, int32>>) and sizeof(FSetElementId)
ElementBytes == 16
HashBytes == 4

\* TSet::GetAllocatedSize, for a set whose slot array has room for Max slots
SetGetAllocatedSize(S, Max) ==
    AllocatorGetAllocatedSize(Max, ElementBytes) + AllocatorGetAllocatedSize(S.HashSize, HashBytes)

\* ------------------------------------------- comparators and element sort
\* The caller's comparators (PREDICATE_CLASS): ascending, descending, and a
\* coarse one under which 2 and 3 are equivalent.
Predicates == {"less", "greater", "coarse"}

Predicate(p, a, b) ==
    CASE p = "less" -> a < b
      [] p = "greater" -> a > b
      [] p = "coarse" -> a \div 2 < b \div 2

\* Mutant of FKeyComparisonClass: compares the values.
FKeyComparisonClass_Value(p, A, B) == Predicate(p, A.val, B.val)

FKeyComparisonClass(p, A, B) == Predicate(p, A.key, B.key)

FValueComparisonClass(p, A, B) == Predicate(p, A.val, B.val)

\* The comparison object handed to the element set's sort: which projection
\* of the pair it compares, and the caller's comparator.
KeyComparison(p) == [by |-> "key", pred |-> p]

ValueComparison(p) == [by |-> "value", pred |-> p]

ElementCompare(c, A, B) ==
    IF c.by = "key" THEN FKeyComparisonClass(c.pred, A, B)
    ELSE FValueComparisonClass(c.pred, A, B)

\* Permutations of 1..n, for every length a compacted map can have
AllPerms ==
    [n \in 0..MaxKey |-> {p \in [1..n -> 1..n] : \A i, j \in 1..n : p[i] = p[j] => i = j}]

Perms(n) == AllPerms[n]

\* ::Sort (unstable): every arrangement the comparator accepts as sorted is a
\* possible outcome; equivalent elements may end in any order.
SortOutcomes(seq, c) ==
    LET n == Len(seq)
    IN {[i \in 1..n |-> seq[p[i]]] : p \in
          {q \in Perms(n) : \A i, j \in 1..n : i < j => ~ElementCompare(c, seq[q[j]], seq[q[i]])}}

\* ::StableSort: sorted, equivalent elements keep their relative order.
StableSortOutcomes(seq, c) ==
    LET n == Len(seq)
    IN {[i \in 1..n |-> seq[p[i]]] : p \in
          {q \in Perms(n) : \A i, j \in 1..n : i < j =>
               /\ ~ElementCompare(c, seq[q[j]], seq[q[i]])
               /\ (~ElementCompare(c, seq[q[i]], seq[q[j]]) => q[i] < q[j])}}

\* TSparseArray::Compact: each hole below the live count, in free-list order,
\* is filled with the last live element; the free list ends empty.
SparseCompact(S) ==
    LET T == SetNum(S)
        Below(f) == f <= T
        Above(i) == i > T
        holes == SelectSeq(S.Free, Below)
        up == SelectSeq(LiveIds(S), Above)
        movers == [i \in 1..Len(up) |-> up[Len(up) + 1 - i]]
        Src(j) == IF \E i \in 1..Len(holes) : holes[i] = j
                  THEN movers[CHOOSE i \in 1..Len(holes) : holes[i] = j]
                  ELSE j
    IN [S EXCEPT !.Data = [j \in 1..T |-> S.Data[Src(j)]], !.Free = <<>>]

\* TSparseArray::CompactStable: the live elements in iteration order.
SparseCompactStable(S) ==
    LET ids == LiveIds(S)
    IN [S EXCEPT !.Data = [j \in 1..Len(ids) |-> S.Data[ids[j]]], !.Free = <<>>]

\* TSparseArray::Sort / StableSort: when there are elements, compact, then
\* sort the slots.
SparseSort(S, c) ==
    LET C == SparseCompact(S)
    IN IF SetNum(S) = 0 THEN {S}
       ELSE {[C EXCEPT !.Data = d] : d \in SortOutcomes(C.Data, c)}

SparseStableSort(S, c) ==
    LET C == SparseCompactStable(S)
    IN IF SetNum(S) = 0 THEN {S}
       ELSE {[C EXCEPT !.Data = d] : d \in StableSortOutcomes(C.Data, c)}

\* TSet::Compact / CompactStable: when the slots were moved, rebuild the hash.
SetCompact(S) == IF Len(S.Free) = 0 THEN S ELSE Rehash(SparseCompact(S))

SetCompactStable(S) == IF Len(S.Free) = 0 THEN S ELSE Rehash(SparseCompactStable(S))

\* TSparseArray::SortFreeList: the free slots are relinked in ascending order
\* of their index, so that the lowest is handed out first; no slot moves.
SetSortFreeList(S) ==
    LET F == {S.Free[i] : i \in 1..Len(S.Free)}
        Rank(f) == Cardinality({g \in F : g <= f})
    IN [S EXCEPT !.Free = [i \in 1..Len(S.Free) |-> CHOOSE f \in F : Rank(f) = i]]

\* TSet::Sort / StableSort: sort the elements, then rebuild the hash.
SetSort(S, c) == {Rehash(X) : X \in SparseSort(S, c)}

SetStableSort(S, c) == {Rehash(X) : X \in SparseStableSort(S, c)}

\* ------------------------------------------------------------- TMapBase
\* A pointer to a stored value: the slot it lives in and what it points at.
Null == [id |-> NoId, val |-> DefaultValue]

ValuePtr(P, id) == IF id = NoId THEN Null ELSE [id |-> id, val |-> P.Data[id].val]

Num(P) == SetNum(P)

GetMaxIndex(P) == SetGetMaxIndex(P)

\* Mutants of Emplace: an insertion that keeps the old value of a key already
\* stored, and one that appends without looking for an equal key.
Emplace_KeepsOld(P, k, v) ==
    LET id == SetFindId(P, k)
    IN IF id # NoId THEN [Pairs |-> P, id |-> id, ret |-> P.Data[id].val]
       ELSE LET r == SetEmplace(P, k, v)
            IN [Pairs |-> r.S, id |-> r.id, ret |-> v]

Emplace_Append(P, k, v) ==
    LET a == AddUninitialized(P)
        S1 == [a.S EXCEPT !.Data[a.Index] = Element(k, v)]
        r == ConditionalRehash(S1, SetNum(S1), FALSE)
    IN [Pairs |-> IF r.done THEN r.S ELSE LinkElement(S1, a.Index, GetKeyHash(k)),
        id |-> a.Index, ret |-> v]

\* Mutant of Emplace: on a key already stored the key object passed takes
\* the place of the stored one.
Emplace_NewKeyObject(P, k, v) ==
    LET r == SetEmplace(P, k, v)
    IN [Pairs |-> [r.S EXCEPT !.Data[r.id].key = k], id |-> r.id,
        ret |-> r.S.Data[r.id].val]

\* Emplace / EmplaceByHash: [Pairs, id, ret]; ret is the stored value referred to.
Emplace(P, k, v) ==
    LET r == SetEmplace(P, k, v)
    IN [Pairs |-> r.S, id |-> r.id, ret |-> r.S.Data[r.id].val]

EmplaceByHash(P, h, k, v) ==
    LET r == SetEmplaceByHash(P, h, k, v)
    IN [Pairs |-> r.S, id |-> r.id, ret |-> r.S.Data[r.id].val]

\* Mutant of Add: the one-argument Emplace, which stores a default value.
Add_DefaultValue(P, k, v) ==
    LET r == SetEmplace(P, k, DefaultValue)
    IN [Pairs |-> r.S, id |-> r.id, ret |-> DefaultValue]

Add(P, k, v) == Emplace(P, k, v)

\* Mutant of AddByHash: forwards to the overload without a value.
AddByHash_KeyOnly(P, h, k, v) == EmplaceByHash(P, h, k, DefaultValue)

AddByHash(P, h, k, v) == EmplaceByHash(P, h, k, v)

\* Mutants of Remove: one reports the count and leaves the pair stored, one
\* reports a removal whether or not the key was stored.
Remove_CountOnly(P, k) == [Pairs |-> P, ret |-> SetRemove(P, k).ret]

Remove_AlwaysOne(P, k) == [Pairs |-> SetRemove(P, k).S, ret |-> 1]

\* Mutant of Remove: the slots after the removed one are moved down.
Remove_Shifts(P, k) ==
    LET r == SetRemove(P, k)
    IN [Pairs |-> SetCompactStable(r.S), ret |-> r.ret]

\* Remove / RemoveByHash: [Pairs, ret]
Remove(P, k) ==
    LET r == SetRemove(P, k)
    IN [Pairs |-> r.S, ret |-> r.ret]

RemoveByHash(P, h, k) ==
    LET r == SetRemoveByHash(P, h, k)
    IN [Pairs |-> r.S, ret |-> r.ret]

Find(P, k) == ValuePtr(P, SetFindId(P, k))

\* Mutant of FindByHash: points at the pair's key instead of its value.
FindByHash_ReturnsKey(P, h, k) ==
    LET id == SetFindIdByHash(P, h, k)
    IN IF id = NoId THEN Null ELSE [id |-> id, val |-> P.Data[id].key]

FindByHash(P, h, k) == ValuePtr(P, SetFindIdByHash(P, h, k))

HashKey(k) == GetKeyHash(k)

\* Mutant of FindOrAddImpl: adds without probing first.
FindOrAddImpl_NoProbe(P, h, k, v) ==
    LET r == SetEmplaceByHash(P, h, k, v)
    IN [Pairs |-> r.S, id |-> r.id, ret |-> r.S.Data[r.id].val]

\* Mutant of FindOrAddImpl: the value passed is stored although the key was
\* found; the value found is returned.
FindOrAddImpl_StoresAnyway(P, h, k, v) ==
    LET id == SetFindIdByHash(P, h, k)
    IN IF id # NoId
       THEN [Pairs |-> SetEmplaceByHash(P, h, k, v).S, id |-> id, ret |-> P.Data[id].val]
       ELSE EmplaceByHash(P, h, k, v)

\* FindOrAddImpl: [Pairs, id, ret]
FindOrAddImpl(P, h, k, v) ==
    LET id == SetFindIdByHash(P, h, k)
    IN IF id # NoId
       THEN [Pairs |-> P, id |-> id, ret |-> P.Data[id].val]
       ELSE AddByHash(P, h, k, v)

FindOrAdd(P, k, v) == FindOrAddImpl(P, HashKey(k), k, v)

\* The overloads without a value: AddByHash(KeyHash, Key) stores a
\* default-constructed value.
FindOrAddImplKey(P, h, k) ==
    LET id == SetFindIdByHash(P, h, k)
    IN IF id # NoId
       THEN [Pairs |-> P, id |-> id, ret |-> P.Data[id].val]
       ELSE EmplaceByHash(P, h, k, DefaultValue)

FindOrAddKey(P, k) == FindOrAddImplKey(P, HashKey(k), k)

\* check(expr): an assertion of the diagnostic builds.  Where checks are
\* compiled in (bDoCheck) a false expression is fatal; elsewhere the macro
\* expands to nothing.
CheckFails(bDoCheck, expr) == bDoCheck /\ ~expr

\* Mutant of FindChecked: no check of the pair found.
FindChecked_NoCheck(P, k, bDoCheck) ==
    LET id == SetFindId(P, k)
    IN IF id # NoId THEN {[fatal |-> FALSE, id |-> id, ret |-> P.Data[id].val]}
       ELSE {[fatal |-> FALSE, id |-> NoId, ret |-> v] : v \in Vals \cup {DefaultValue}}

\* FindChecked: the set of possible outcomes [fatal, id, ret].  Without the
\* check an absent key makes the method return a reference formed from a null
\* pair: it refers to no slot, and what is read through it is undefined.
FindChecked(P, k, bDoCheck) ==
    LET id == SetFindId(P, k)
    IN IF CheckFails(bDoCheck, id # NoId)
       THEN {[fatal |-> TRUE, id |-> NoId, ret |-> DefaultValue]}
       ELSE IF id # NoId THEN {[fatal |-> FALSE, id |-> id, ret |-> P.Data[id].val]}
       ELSE {[fatal |-> FALSE, id |-> NoId, ret |-> v] : v \in Vals \cup {DefaultValue}}

\* Mutant of FindRef: a lookup that inserts the default value for an absent key.
FindRef_Inserts(P, k) ==
    LET r == SetFindId(P, k)
    IN IF r # NoId THEN [Pairs |-> P, ret |-> P.Data[r].val]
       ELSE [Pairs |-> SetEmplace(P, k, DefaultValue).S, ret |-> DefaultValue]

\* FindRef: [Pairs, ret]; a const method, the pair set is not touched.
FindRef(P, k) ==
    LET id == SetFindId(P, k)
    IN IF id # NoId THEN [Pairs |-> P, ret |-> P.Data[id].val]
       ELSE [Pairs |-> P, ret |-> DefaultValue]

\* Mutant of Reset: the pair set is replaced by a newly constructed one.
Reset_AsNew(P) == EmptySet

Reset(P) == SetReset(P)

Shrink(P) == SetShrink(P)

Compact(P) == SetCompact(P)

\* IsValidId / Get: whether an identifier refers to a stored pair, and the
\* pair it refers to.
IsValidId(P, id) == SetIsValidId(P, id)

Get(P, id) == <<P.Data[id].key, P.Data[id].val>>

\* Mutant of CompactStable: the compaction that fills holes from the end.
CompactStable_Unstable(P) == SetCompact(P)

CompactStable(P) == SetCompactStable(P)

\* Mutant of Reserve: the request is dropped.
Reserve_Ignored(P, Number) == P

Reserve(P, Number) == SetReserve(P, Number)

\* GetAllocatedSize, with the slots the pair set's allocation has room for
GetAllocatedSize(P, Max) == SetGetAllocatedSize(P, Max)

\* The pairs in full-traversal order, as <<key, value>>.
IterPairs(P) ==
    LET ids == LiveIds(P)
    IN [i \in 1..Len(ids) |-> <<P.Data[ids[i]].key, P.Data[ids[i]].val>>]

\* The caller's predicates on a pair (FilterByPredicate's functor), each a
\* pure function of the pair.
PairPredicates == {"all", "none", "oddKey", "evenSum"}

Pred(f, Key, Value) ==
    CASE f = "all" -> TRUE
      [] f = "none" -> FALSE
      [] f = "oddKey" -> Key % 2 = 1
      [] f = "evenSum" -> (Key + Value) % 2 = 0

\* Mutant of FilterLoop: keeps the pairs the predicate rejects.
RECURSIVE FilterLoop_Negated(_, _, _, _, _)
FilterLoop_Negated(P, ids, i, f, FilterResults) ==
    IF i > Len(ids) THEN FilterResults
    ELSE IF ~Pred(f, P.Data[ids[i]].key, P.Data[ids[i]].val)
         THEN FilterLoop_Negated(P, ids, i + 1, f,
                                 Add(FilterResults, P.Data[ids[i]].key, P.Data[ids[i]].val).Pairs)
         ELSE FilterLoop_Negated(P, ids, i + 1, f, FilterResults)

\* FilterByPredicate: the loop over the pairs ids[i..]
RECURSIVE FilterLoop(_, _, _, _, _)
FilterLoop(P, ids, i, f, FilterResults) ==
    IF i > Len(ids) THEN FilterResults
    ELSE IF Pred(f, P.Data[ids[i]].key, P.Data[ids[i]].val)
         THEN FilterLoop(P, ids, i + 1, f,
                         Add(FilterResults, P.Data[ids[i]].key, P.Data[ids[i]].val).Pairs)
         ELSE FilterLoop(P, ids, i + 1, f, FilterResults)

\* FilterByPredicate: [Pairs, FilterResults]; a const method, the result is a
\* new map reserved for Num() pairs.
FilterByPredicate(P, f) ==
    [Pairs |-> P,
     FilterResults |-> FilterLoop(P, LiveIds(P), 1, f, Reserve(EmptySet, Num(P)))]

\* A pointer to a stored key: the slot it lives in and the key it points at.
NullKey == [id |-> NoId, key |-> 0]

\* Mutant of FindKey: the last pair with the value wins.
RECURSIVE FindKey_LastMatch(_, _, _, _)
FindKey_LastMatch(P, ids, i, Value) ==
    IF i > Len(ids) THEN NullKey
    ELSE LET rest == FindKey_LastMatch(P, ids, i + 1, Value)
         IN IF rest # NullKey THEN rest
            ELSE IF P.Data[ids[i]].val = Value THEN [id |-> ids[i], key |-> P.Data[ids[i]].key]
            ELSE NullKey

\* FindKey: the loop over the pairs ids[i..], in iteration order.
RECURSIVE FindKeyLoop(_, _, _, _)
FindKeyLoop(P, ids, i, Value) ==
    IF i > Len(ids) THEN NullKey
    ELSE IF P.Data[ids[i]].val = Value THEN [id |-> ids[i], key |-> P.Data[ids[i]].key]
    ELSE FindKeyLoop(P, ids, i + 1, Value)

FindKey(P, Value) == FindKeyLoop(P, LiveIds(P), 1, Value)

\* GetKeys(TArray&): the loop over the pairs; a key goes to OutKeys unless
\* VisitedKeys already holds it.
RECURSIVE GetKeysLoop(_, _, _, _, _)
GetKeysLoop(P, ids, i, OutKeys, VisitedKeys) ==
    IF i > Len(ids) THEN OutKeys
    ELSE LET Key == P.Data[ids[i]].key
         IN IF ~(\E x \in VisitedKeys : Matches(x, Key))
            THEN GetKeysLoop(P, ids, i + 1, Append(OutKeys, Key), VisitedKeys \cup {Key})
            ELSE GetKeysLoop(P, ids, i + 1, OutKeys, VisitedKeys)

\* Mutant of GetKeys: OutKeys is not reset first.
GetKeys_NoReset(P, OutKeys) ==
    LET out == GetKeysLoop(P, LiveIds(P), 1, OutKeys, {})
    IN [OutKeys |-> out, ret |-> Len(out)]

\* GetKeys(TArray&): [OutKeys, ret]
GetKeys(P, OutKeys) ==
    LET out == GetKeysLoop(P, LiveIds(P), 1, <<>>, {})
    IN [OutKeys |-> out, ret |-> Len(out)]

\* TSet<KeyType>::Add for the output set of keys, kept as the sequence of its
\* elements: a key equal to one already there adds no element.
KeySetAdd(OutKeys, Key) ==
    IF \E i \in 1..Len(OutKeys) : Matches(OutKeys[i], Key) THEN OutKeys
    ELSE Append(OutKeys, Key)

RECURSIVE GetKeysSetLoop(_, _, _, _)
GetKeysSetLoop(P, ids, i, OutKeys) ==
    IF i > Len(ids) THEN OutKeys
    ELSE GetKeysSetLoop(P, ids, i + 1, KeySetAdd(OutKeys, P.Data[ids[i]].key))

\* GetKeys(TSet&): [OutKeys, ret]
GetKeysSet(P, OutKeys) ==
    LET out == GetKeysSetLoop(P, LiveIds(P), 1, <<>>)
    IN [OutKeys |-> out, ret |-> Len(out)]

\* Mutant of CompareLoop: checks that the keys exist, not that the values agree.
RECURSIVE CompareLoop_KeysOnly(_, _, _, _)
CompareLoop_KeysOnly(A, B, ids, i) ==
    IF i > Len(ids) THEN [ret |-> TRUE, iters |-> i - 1, finds |-> i - 1]
    ELSE IF SetFindId(B, A.Data[ids[i]].key) = NoId THEN [ret |-> FALSE, iters |-> i, finds |-> i]
    ELSE CompareLoop_KeysOnly(A, B, ids, i + 1)

RECURSIVE CompareLoop(_, _, _, _)
CompareLoop(A, B, ids, i) ==
    IF i > Len(ids) THEN [ret |-> TRUE, iters |-> i - 1, finds |-> i - 1]
    ELSE LET BVal == Find(B, A.Data[ids[i]].key)
         IN IF BVal = Null THEN [ret |-> FALSE, iters |-> i, finds |-> i]
            ELSE IF ~(BVal.val = A.Data[ids[i]].val) THEN [ret |-> FALSE, iters |-> i, finds |-> i]
            ELSE CompareLoop(A, B, ids, i + 1)

\* Mutant of OrderIndependentCompareEqual: no check of the counts first.
OrderIndependentCompareEqual_NoCountCheck(A, B) == CompareLoop(A, B, LiveIds(A), 1)

\* Mutant of OrderIndependentCompareEqual: the counts are compared with >
\* instead of !=.
OrderIndependentCompareEqual_CountGreater(A, B) ==
    IF Num(A) > Num(B) THEN [ret |-> FALSE, iters |-> 0, finds |-> 0]
    ELSE CompareLoop(A, B, LiveIds(A), 1)

\* OrderIndependentCompareEqual: the result, the pairs of A visited and the
\* Find calls made on B.
OrderIndependentCompareEqual(A, B) ==
    IF Num(A) # Num(B) THEN [ret |-> FALSE, iters |-> 0, finds |-> 0]
    ELSE CompareLoop(A, B, LiveIds(A), 1)

\* ----------------------------------------------------- TSortableMapBase
\* The sorts return the set of possible resulting pair sets.

\* Mutant of KeySort: sorts the keys and leaves the values where they were.
KeySort_KeysOnly(P, p) ==
       {Rehash([X EXCEPT !.Data = [i \in 1..Len(X.Data) |->
                  [X.Data[i] EXCEPT !.val = SparseCompact(P).Data[i].val]]]) :
          X \in SparseSort(P, KeyComparison(p))}

KeySort(P, p) == SetSort(P, KeyComparison(p))

KeyStableSort(P, p) == SetStableSort(P, KeyComparison(p))

ValueSort(P, p) == SetSort(P, ValueComparison(p))

ValueStableSort(P, p) == SetStableSort(P, ValueComparison(p))

\* Mutant of SortFreeList: the free list is left as it is.
SortFreeList_Noop(P) == P

\* SortFreeList
SortFreeList(P) == SetSortFreeList(P)

\* The set of <<key, value>> pairs stored (Array(), order forgotten).
Contents(P) == {IterPairs(P)[i] : i \in 1..Len(IterPairs(P))}

\* ---------------------------------------------------------- TIterator
\* The mutable full-traversal iterator: the slot it stands on (NoId past the
\* end), its two flags, and as history the number of RemoveCurrent calls made
\* through it and of Relax passes run for it.
NoIterator == [live |-> FALSE, id |-> NoId, bElementsHaveBeenRemoved |-> FALSE,
               bRequiresRehashOnRemoval |-> FALSE, removals |-> 0, relaxed |-> 0]

\* The element set's iterator: the first live slot after slot id, NoId when
\* there is none.
NextLiveId(P, id) ==
    LET later == {i \in (id + 1)..Len(P.Data) : P.Data[i].alloc}
    IN IF later = {} THEN NoId ELSE CHOOSE i \in later : \A j \in later : i <= j

\* TIterator(InMap, bInRequiresRehashOnRemoval)
TIterator(P, bInRequiresRehashOnRemoval) ==
    [live |-> TRUE, id |-> NextLiveId(P, 0), bElementsHaveBeenRemoved |-> FALSE,
     bRequiresRehashOnRemoval |-> bInRequiresRehashOnRemoval, removals |-> 0, relaxed |-> 0]

\* operator++
Increment(P, it) == [it EXCEPT !.id = NextLiveId(P, it.id)]

\* Mutant of RemoveCurrent: the rehash pass runs at once, per removal.
RemoveCurrent_Eager(P, it) ==
    [Pairs |-> IF it.bRequiresRehashOnRemoval THEN SetRelax(SetRemoveId(P, it.id))
               ELSE SetRemoveId(P, it.id),
     It |-> [it EXCEPT !.bElementsHaveBeenRemoved = TRUE, !.removals = @ + 1,
                       !.relaxed = IF it.bRequiresRehashOnRemoval THEN @ + 1 ELSE @]]

\* RemoveCurrent: [Pairs, It]
RemoveCurrent(P, it) ==
    [Pairs |-> SetRemoveId(P, it.id),
     It |-> [it EXCEPT !.bElementsHaveBeenRemoved = TRUE, !.removals = @ + 1]]

\* ~TIterator: [Pairs, It]
IteratorDestructor(P, it) ==
    IF it.bElementsHaveBeenRemoved /\ it.bRequiresRehashOnRemoval
    THEN [Pairs |-> SetRelax(P), It |-> [it EXCEPT !.live = FALSE, !.relaxed = @ + 1]]
    ELSE [Pairs |-> P, It |-> [it EXCEPT !.live = FALSE]]

\* Mutant of CreateIterator: the iterator asks for the rehash pass.
CreateIterator_Rehash(P) == TIterator(P, TRUE)

\* CreateIterator(): the constructor's second argument is left to its default.
CreateIterator(P) == TIterator(P, FALSE)

\* An iterator together with the way the caller obtained it (history).
Obtained(it, how) == [via |-> how] @@ it

\* ------------------------------------------------------ copying and moving
\* Two maps and the backing storage of their element sets.  MD gives each
\* map the storage its element set uses (NoStore: none, the set is empty), St
\* gives each storage its content.
MapIds == {1, 2}
StoreIds == {1, 2}
NoStore == 0

\* A call on one of the two maps: the map (map) and the source of a copy or
\* move (from).
MapCall(op, m, from) == [op |-> op, map |-> m, from |-> from]

\* The element set of map m
Elements(MD, St, m) == IF MD[m] = NoStore THEN EmptySet ELSE St[MD[m]]

\* A storage no map uses
UnusedStore(MD) == CHOOSE s \in StoreIds : \A m \in MapIds : MD[m] # s

\* The storages no map uses hold nothing.
ReleaseUnused(MD, St) ==
    [s \in StoreIds |-> IF \E m \in MapIds : MD[m] = s THEN St[s] ELSE EmptySet]

\* The element set of map m becomes S, in the storage of m, which is
\* allocated when m has none: [MapData, Store]
WriteElements(MD, St, m, S) ==
    LET s == IF MD[m] = NoStore THEN UnusedStore(MD) ELSE MD[m]
    IN [MapData |-> [MD EXCEPT ![m] = s], Store |-> [St EXCEPT ![s] = S]]

\* TSet's copy: the elements of S are added one by one, in iteration order,
\* to a set of its own.
RECURSIVE SetCopyLoop(_, _, _, _)
SetCopyLoop(S, ids, i, T) ==
    IF i > Len(ids) THEN T
    ELSE SetCopyLoop(S, ids, i + 1, SetEmplace(T, S.Data[ids[i]].key, S.Data[ids[i]].val).S)

SetCopy(S) == SetCopyLoop(S, LiveIds(S), 1, EmptySet)

\* Mutant of CopyAssign: the destination is made to use the storage of the
\* source.
CopyAssign_Shallow(MD, St, This, From) ==
    LET MD1 == [MD EXCEPT ![This] = MD[From]]
    IN [MapData |-> MD1, Store |-> ReleaseUnused(MD1, St)]

\* The copy constructor and the copy assignment, Pairs(Other.Pairs) and
\* Pairs = Other.Pairs: [MapData, Store]
CopyAssign(MD, St, This, From) ==
    WriteElements(MD, St, This, SetCopy(Elements(MD, St, From)))

\* The move constructor and the move assignment, Pairs(MoveTemp(Other.Pairs))
\* and Pairs = MoveTemp(Other.Pairs): the destination takes over the storage
\* of the source, which is left with none.
MoveAssign(MD, St, This, From) ==
    LET MD1 == [MD EXCEPT ![This] = MD[From], ![From] = NoStore]
    IN [MapData |-> MD1, Store |-> ReleaseUnused(MD1, St)]

\* ------------------------------------------------- one map, several threads
\* The threads that use the one map, and the lock they share; the lock is
\* the callers', not the map's.
Threads == {1, 2}
NoThread == 0

TableOps == {"AddByHash", "FindByHash", "RemoveByHash", "FindOrAddByHash"}

\* A thread's call: its position (pc), the operation, its key and value, the
\* key hash the thread has computed (hash), what the first step of the
\* operation found in the table (probe) and the result returned (ret).
NoResult == [found |-> FALSE, val |-> 0]

IdleThread ==
    [pc |-> "idle", op |-> "", key |-> 0, val |-> 0, hash |-> 0,
     probe |-> NoId, ret |-> NoResult]

\* Mutant of CanAcquire: the lock is taken whoever holds it.
CanAcquire_NoLock(L) == TRUE

\* The external lock is free.
CanAcquire(L) == L = NoThread

\* The first step of a table operation.  FindOrAddImpl starts with
\* Pairs.FindByHash(KeyHash, Key); the other operations are one call into
\* the set.
TableProbe(P, c) ==
    IF c.op = "FindOrAddByHash" THEN SetFindIdByHash(P, c.hash, c.key) ELSE NoId

\* The rest of the operation: [Pairs, ret].  FindOrAddImpl returns the value
\* of the pair its first step found, or calls AddByHash.
TableFinish(P, c) ==
    CASE c.op = "AddByHash" ->
            LET r == AddByHash(P, c.hash, c.key, c.val)
            IN [Pairs |-> r.Pairs, ret |-> [found |-> TRUE, val |-> r.ret]]
      [] c.op = "FindByHash" ->
            LET r == FindByHash(P, c.hash, c.key)
            IN [Pairs |-> P, ret |-> [found |-> r # Null, val |-> r.val]]
      [] c.op = "RemoveByHash" ->
            LET r == RemoveByHash(P, c.hash, c.key)
            IN [Pairs |-> r.Pairs, ret |-> [found |-> r.ret > 0, val |-> r.ret]]
      [] c.op = "FindOrAddByHash" ->
            IF c.probe # NoId
            THEN [Pairs |-> P, ret |-> [found |-> TRUE, val |-> P.Data[c.probe].val]]
            ELSE LET r == AddByHash(P, c.hash, c.key, c.val)
                 IN [Pairs |-> r.Pairs, ret |-> [found |-> TRUE, val |-> r.ret]]

\* The operation of call c run by itself on P, nothing in between its steps
RunAlone(P, c) == TableFinish(P, [c EXCEPT !.probe = TableProbe(P, c)])

\* The calls a and b one after the other on P: the final map and the two
\* results
Sequential(P, a, b) ==
    LET r1 == RunAlone(P, a)
        r2 == RunAlone(r1.Pairs, b)
    IN [Pairs |-> r2.Pairs, first |-> r1.ret, second |-> r2.ret]

\* The maps the threads find: maps built by calls of Add(InKey) and Remove.
StartMaps ==
    LET One(k) == SetEmplace(EmptySet, k, DefaultValue).S
        Two(k, j) == SetEmplace(One(k), j, DefaultValue).S
    IN {EmptySet} \cup {One(k) : k \in CmpKeys}
         \cup {Two(k, j) : k \in CmpKeys, j \in CmpKeys}
         \cup {Remove(Two(k, j), k).Pairs : k \in CmpKeys, j \in CmpKeys}

\* ------------------------------------------------------------- log macros
\* ELogVerbosity: the levels are 1 .. NumVerbosity - 1, Fatal the lowest; a
\* category's verbosity may also be NoLogging.
NoLogging == 0
Fatal == 1
NumVerbosity == 8
VerbosityMask == 15

Verbosities == 1..(NumVerbosity - 1)
CategoryVerbosities == 0..(NumVerbosity - 1)

\* Verbosity & VerbosityMask
MaskVerbosity(V) == V % (VerbosityMask + 1)

\* A log category: the verbosity compiled in for it and the verbosity it is
\* set to; COMPILED_IN_MINIMUM_VERBOSITY belongs to the build.
LogCategories ==
    [CompileTimeVerbosity : CategoryVerbosities, Verbosity : CategoryVerbosities]

\* FLogCategoryBase::IsSuppressed
IsSuppressed(Category, V) == MaskVerbosity(V) > Category.Verbosity

\* FLogCategoryBase::GetCompileTimeVerbosity
GetCompileTimeVerbosity(Category) == Category.CompileTimeVerbosity

\* What one expansion of a log macro did: whether the condition expression
\* was evaluated, and the function called ("" when none).
LogOutcome(evaluated, call) == [evaluated |-> evaluated, call |-> call]

\* Mutant of UE_PRIVATE_LOG: the Fatal branch tests the category as the other
\* branch does.
UE_PRIVATE_LOG_FatalTestsCategory(Condition, Category, V, MinimumVerbosity) ==
    IF /\ MaskVerbosity(V) <= MinimumVerbosity \/ MaskVerbosity(V) = Fatal
       /\ MaskVerbosity(V) <= GetCompileTimeVerbosity(Category)
       /\ ~IsSuppressed(Category, V)
    THEN LogOutcome(TRUE, IF ~Condition THEN ""
                          ELSE IF MaskVerbosity(V) = Fatal THEN "BasicFatalLog"
                          ELSE "BasicLog")
    ELSE LogOutcome(FALSE, "")

\* UE_PRIVATE_LOG with "if (Condition)" as its first argument, Condition the
\* value the expression has when it is evaluated, MinimumVerbosity the
\* build's COMPILED_IN_MINIMUM_VERBOSITY.
UE_PRIVATE_LOG(Condition, Category, V, MinimumVerbosity) ==
    IF MaskVerbosity(V) = Fatal
    THEN LogOutcome(TRUE, IF Condition THEN "BasicFatalLog" ELSE "")
    ELSE IF MaskVerbosity(V) <= MinimumVerbosity
    THEN IF MaskVerbosity(V) <= GetCompileTimeVerbosity(Category)
         THEN IF ~IsSuppressed(Category, V)
              THEN LogOutcome(TRUE, IF Condition THEN "BasicLog" ELSE "")
              ELSE LogOutcome(FALSE, "")
         ELSE LogOutcome(FALSE, "")
    ELSE LogOutcome(FALSE, "")

UE_CLOG(Condition, Category, V, MinimumVerbosity) ==
    UE_PRIVATE_LOG(Condition, Category, V, MinimumVerbosity)

\* The category is active at verbosity V: compiled in and not suppressed.
CategoryActive(Category, V, MinimumVerbosity) ==
    /\ MaskVerbosity(V) <= MinimumVerbosity
    /\ MaskVerbosity(V) <= GetCompileTimeVerbosity(Category)
    /\ ~IsSuppressed(Category, V)

\* EnsureRetrievingVTablePtrDuringCtor: UE_CLOG(!GIsRetrievingVTablePtr,
\* LogCore, Fatal, ...)
EnsureRetrievingVTablePtrDuringCtor(IsRetrieving, LogCore, MinimumVerbosity) ==
    UE_CLOG(~IsRetrieving, LogCore, Fatal, MinimumVerbosity)

\* FConfigCacheIni::FConfigCacheIni()
FConfigCacheIniDefaultCtor(IsRetrieving, LogCore, MinimumVerbosity) ==
    EnsureRetrievingVTablePtrDuringCtor(IsRetrieving, LogCore, MinimumVerbosity)

\* A use of the log macros: the call made (op), the verbosity and the value
\* of the condition, whether the category was active then (active), whether
\* the condition was evaluated and the function called; fatal tells that
\* BasicFatalLog ended the process.
LogCall(op, V, Condition, active, r) ==
    [op |-> op, verbosity |-> V, cond |-> Condition, active |-> active,
     evaluated |-> r.evaluated, call |-> r.call, fatal |-> r.call = "BasicFatalLog"]

\* ------------------------------------------------- TSizedHeapAllocator state
\* The allocator's integer types.  Every width of the model is the
\* program's width divided by four, so that the products stay small: SIZE_T
\* has 16 bits (the 64-bit platform) or 8 bits (the 32-bit platform), the
\* index type SizeType of TSizedHeapAllocator<IndexSize> has 4, 8 or 16 bits
\* (IndexSize 16, 32, 64) and MAX_int32 is the largest signed 8-bit value.
\* The order of the widths and of the largest products is the program's:
\* two values bounded by MAX_int32 multiply within the wide SIZE_T and
\* overflow the narrow one.
SizeTWidths == {8, 16}
IndexWidths == {4, 8, 16}
MAX_int32 == 127

\* TNumericLimits<SizeType>::Max() of a signed type of the given width
NumericLimitsMax(Bits) == 2 ^ (Bits - 1) - 1

\* (SIZE_T)(USizeType)NumElements: the unsigned value of the same bits
ToUnsigned(n, Bits) == n % (2 ^ Bits)

\* NumElements * NumBytesPerElement as the program computes it: NumElements
\* is converted to SIZE_T and the product is taken modulo 2^SizeTBits.
SizeTProduct(NumElements, NumBytesPerElement, SizeTBits) ==
    (ToUnsigned(NumElements, SizeTBits) * NumBytesPerElement) % (2 ^ SizeTBits)

\* bInvalidResize, the under/overflow test of ResizeAllocation; the bound on
\* the product is compiled in only where SizeType is as wide as SIZE_T.
InvalidResize(NumElements, NumBytesPerElement, IndexBits, SizeTBits) ==
    IF NumElements < 0 \/ NumBytesPerElement < 1 \/ NumBytesPerElement > MAX_int32
    THEN TRUE
    ELSE IF IndexBits = SizeTBits
         THEN ToUnsigned(NumElements, IndexBits) > NumericLimitsMax(IndexBits) \div NumBytesPerElement
         ELSE FALSE

\* UE::Core::Private::OnInvalidSizedHeapAllocatorNum reports a fatal error
\* and does not return.
HookReturns == FALSE

NullPtr == 0

\* Mutant of ResizeAllocation: the code after the hook runs although the hook
\* was invoked.
ResizeAllocation_FallsThrough(Data, NumElements, NumBytesPerElement, IndexBits, SizeTBits) ==
    IF Data # NullPtr \/ NumElements # 0
    THEN [hook |-> InvalidResize(NumElements, NumBytesPerElement, IndexBits, SizeTBits),
          realloc |-> TRUE,
          bytes |-> SizeTProduct(NumElements, NumBytesPerElement, SizeTBits)]
    ELSE [hook |-> FALSE, realloc |-> FALSE, bytes |-> 0]

\* Mutant of ResizeAllocation: without the test of Data and NumElements
\* around the body.
ResizeAllocation_NoGuard(Data, NumElements, NumBytesPerElement, IndexBits, SizeTBits) ==
    LET bInvalidResize == InvalidResize(NumElements, NumBytesPerElement, IndexBits, SizeTBits)
    IN IF bInvalidResize /\ ~HookReturns
       THEN [hook |-> TRUE, realloc |-> FALSE, bytes |-> 0]
       ELSE [hook |-> bInvalidResize, realloc |-> TRUE,
             bytes |-> SizeTProduct(NumElements, NumBytesPerElement, SizeTBits)]

\* ResizeAllocation up to its call of Realloc: whether the fatal hook is
\* invoked (hook), whether Realloc is called (realloc) and with what byte
\* count (bytes).
ResizeAllocation(Data, NumElements, NumBytesPerElement, IndexBits, SizeTBits) ==
    IF Data # NullPtr \/ NumElements # 0
    THEN LET bInvalidResize == InvalidResize(NumElements, NumBytesPerElement, IndexBits, SizeTBits)
         IN IF bInvalidResize /\ ~HookReturns
            THEN [hook |-> TRUE, realloc |-> FALSE, bytes |-> 0]
            ELSE [hook |-> bInvalidResize, realloc |-> TRUE,
                  bytes |-> SizeTProduct(NumElements, NumBytesPerElement, SizeTBits)]
    ELSE [hook |-> FALSE, realloc |-> FALSE, bytes |-> 0]

\* The overload taking the alignment of the elements: the same test and the
\* same byte count; the alignment is handed on to Realloc.
ResizeAllocationAligned(Data, NumElements, NumBytesPerElement, IndexBits, SizeTBits) ==
    IF Data # NullPtr \/ NumElements # 0
    THEN LET bInvalidResize == InvalidResize(NumElements, NumBytesPerElement, IndexBits, SizeTBits)
         IN IF bInvalidResize /\ ~HookReturns
            THEN [hook |-> TRUE, realloc |-> FALSE, bytes |-> 0]
            ELSE [hook |-> bInvalidResize, realloc |-> TRUE,
                  bytes |-> SizeTProduct(NumElements, NumBytesPerElement, SizeTBits)]
    ELSE [hook |-> FALSE, realloc |-> FALSE, bytes |-> 0]

\* The memory subsystem (BaseMallocType): Live is the set of blocks handed
\* out and not yet freed, bad tells whether a pointer that is not a live
\* block was ever freed.  A freed block's address may be handed out again.
MaxBlocks == 3
Blocks == 1..MaxBlocks

EmptyHeap == [Live |-> {}, bad |-> FALSE]

\* Free(ptr)
MallocFree(M, ptr) ==
    IF ptr = NullPtr THEN M
    ELSE IF ptr \in M.Live THEN [M EXCEPT !.Live = @ \ {ptr}]
    ELSE [M EXCEPT !.bad = TRUE]

\* Realloc(ptr, bytes): the set of outcomes [M, ret].  A byte count of zero
\* frees the block and returns null; Realloc(nullptr, 0) returns null or,
\* as ANSI C has it, a valid pointer.  Otherwise the block is kept in place
\* or moved to a block that was not in use.
MallocRealloc(M, ptr, bytes) ==
    LET Fresh == {[M |-> [MallocFree(M, ptr) EXCEPT !.Live = @ \cup {b}], ret |-> b] :
                     b \in Blocks \ M.Live}
    IN IF bytes = 0
       THEN IF ptr = NullPtr THEN {[M |-> M, ret |-> NullPtr]} \cup Fresh
            ELSE {[M |-> MallocFree(M, ptr), ret |-> NullPtr]}
       ELSE IF ptr \in M.Live THEN {[M |-> M, ret |-> ptr]} \cup Fresh
            ELSE Fresh

\* checkSlow(expr): an assertion of the debug builds only.
CheckSlowFails(bDoCheckSlow, expr) == bDoCheckSlow /\ ~expr

\* Allocator instances (ForAnyElementType objects)
Insts == {1, 2}

\* Mutant of MoveToEmptyFromOtherAllocator: a destination holding a block
\* keeps no record of it and the block is not freed.
MoveToEmpty_NoFree(D, M, This, Other, bDoCheckSlow) ==
    IF CheckSlowFails(bDoCheckSlow, This # Other)
    THEN [Data |-> D, M |-> M, fatal |-> TRUE]
    ELSE LET D2 == [D EXCEPT ![This] = D[Other]]
         IN [Data |-> [D2 EXCEPT ![Other] = NullPtr], M |-> M, fatal |-> FALSE]

\* Mutant of MoveToEmptyFromOtherAllocator: the source keeps its pointer.
MoveToEmpty_NoNull(D, M, This, Other, bDoCheckSlow) ==
    IF CheckSlowFails(bDoCheckSlow, This # Other)
    THEN [Data |-> D, M |-> M, fatal |-> TRUE]
    ELSE [Data |-> [D EXCEPT ![This] = D[Other]], M |-> MallocFree(M, D[This]),
          fatal |-> FALSE]

\* Mutant of MoveToEmptyFromOtherAllocator: a destination holding a block is
\* rejected by the check.
MoveToEmpty_CheckEmpty(D, M, This, Other, bDoCheckSlow) ==
    IF CheckSlowFails(bDoCheckSlow, This # Other /\ D[This] = NullPtr)
    THEN [Data |-> D, M |-> M, fatal |-> TRUE]
    ELSE LET M1 == MallocFree(M, D[This])
             D2 == [D EXCEPT ![This] = D[Other]]
         IN [Data |-> [D2 EXCEPT ![Other] = NullPtr], M |-> M1, fatal |-> FALSE]

\* MoveToEmptyFromOtherAllocator on instance This with argument Other, over
\* the pointers D of all instances: [Data, M, fatal].  The statements run in
\* the order of the code, also when This and Other are one object.
MoveToEmptyFromOtherAllocator(D, M, This, Other, bDoCheckSlow) ==
    IF CheckSlowFails(bDoCheckSlow, This # Other)
    THEN [Data |-> D, M |-> M, fatal |-> TRUE]
    ELSE LET M1 == MallocFree(M, D[This])
             D2 == [D EXCEPT ![This] = D[Other]]
         IN [Data |-> [D2 EXCEPT ![Other] = NullPtr], M |-> M1, fatal |-> FALSE]

MoveToEmpty(D, M, This, Other, bDoCheckSlow) ==
    MoveToEmptyFromOtherAllocator(D, M, This, Other, bDoCheckSlow)

\* ~ForAnyElementType: the memory subsystem after the destructor
AllocatorDestructor(D, M, This) ==
    IF D[This] # NullPtr THEN MallocFree(M, D[This]) ELSE M

HasAllocation(D, This) == D[This] # NullPtr

GetInitialCapacity == 0

\* ------------------------------------------------- FConfigCacheIni's files
\* The FConfigFile objects allocated so far are numbered 1, 2, ... in the order
\* of their allocation; F gives for each how many times it was deleted.  A
\* pointer to an object is its number, the null pointer is NullPtr, which is
\* also the default-constructed value FindRef returns for an absent key.
Filenames == CmpKeys

\* new FConfigFile(File): [Files, ptr]
NewConfigFile(F) == [Files |-> Append(F, 0), ptr |-> Len(F) + 1]

\* delete p; deleting the null pointer does nothing.
DeleteConfigFile(F, p) == IF p = NullPtr THEN F ELSE [F EXCEPT ![p] = @ + 1]

\* FConfigCacheIni::Add: [OtherFiles, Files, ret]; the object is allocated
\* before the map is called.
FConfigCacheIniAdd(O, F, Filename) ==
    LET n == NewConfigFile(F)
        r == Add(O, Filename, n.ptr)
    IN [OtherFiles |-> r.Pairs, Files |-> n.Files, ret |-> n.ptr]

\* FConfigCacheIni::Remove: [OtherFiles, Files, ret]
FConfigCacheIniRemove(O, F, Filename) ==
    LET p == FindRef(O, Filename).ret
        r == Remove(O, Filename)
    IN [OtherFiles |-> r.Pairs, Files |-> DeleteConfigFile(F, p), ret |-> r.ret]

\* The entries of the map whose value is the pointer p.
EntriesOf(O, p) == {i \in 1..Len(O.Data) : O.Data[i].alloc /\ O.Data[i].val = p}

\* A call on the config cache: whether the filename was present before it
\* (had), what it returned (ret).
CacheCall(op, Filename, had, ret) == [op |-> op, Filename |-> Filename, had |-> had, ret |-> ret]

\* -------------------------------------------- GetShaderPermutationFlags
\* EShaderPermutationFlags
None == 0
HasEditorOnlyData == 1

\* The game ini as GetBool sees it: whether the key is there (found) and the
\* value it has (value).
Configs == [found : BOOLEAN, value : BOOLEAN]

\* GConfig->GetBool(Section, Key, Value, Filename): [ret, Value]; returns whether
\* the key was found and leaves Value alone when it was not.
GetBool(C, Value) == [ret |-> C.found, Value |-> IF C.found THEN C.value ELSE Value]

\* The initializer of the function's static.
SupportCookedEditorInitializer(C) ==
    LET bSupportCookedEditorConfigValue == FALSE
        r == GetBool(C, bSupportCookedEditorConfigValue)
    IN r.ret /\ r.Value

\* A function-local static before control first passes its declaration.
NotInitialized == [initialized |-> FALSE, value |-> FALSE]

\* Mutant of GetShaderPermutationFlags: the config is read on every call.
GetShaderPermutationFlags_ReadsEachCall(S, C, WithEditorOnly) ==
    LET v == SupportCookedEditorInitializer(C)
    IN [Static |-> [initialized |-> TRUE, value |-> v], reads |-> 1,
        ret |-> IF v \/ WithEditorOnly THEN HasEditorOnlyData ELSE None]

\* GetShaderPermutationFlags(LayoutParams): [Static, reads, ret]; S is the
\* static bProjectSupportsCookedEditor, initialized when control first passes
\* its declaration; reads counts the GetBool calls made.  Result starts as
\* None, so Result |= HasEditorOnlyData leaves HasEditorOnlyData.
GetShaderPermutationFlags(S, C, WithEditorOnly) ==
    LET s == IF S.initialized THEN S
             ELSE [initialized |-> TRUE, value |-> SupportCookedEditorInitializer(C)]
    IN [Static |-> s, reads |-> IF S.initialized THEN 0 ELSE 1,
        ret |-> IF s.value \/ WithEditorOnly THEN HasEditorOnlyData ELSE None]

\* A call of GetShaderPermutationFlags: LayoutParams.WithEditorOnly() and the
\* result.
ShaderCall(op, WithEditorOnly, ret) == [op |-> op, WithEditorOnly |-> WithEditorOnly, ret |-> ret]

\* ---------------------------------------------------------- state machine
\* Pairs: the map under test (its element set); Other: a second map;
\* lastOp: the call that produced the current state, with its arguments and
\* results; lastAdd: per key the value most recently stored by an insertion
\* since the key was last removed, as a set of at most one value (history);
\* ArrayMax: the number of slots the backing allocation of Pairs has room
\* for, followed only by the steps of SpecAlloc; It: the mutable iterator over
\* Pairs, when one exists.
VARIABLES Pairs, Other, lastOp, lastAdd, ArrayMax, It

\* Build: the platform and build the program is compiled for (the width of
\* SIZE_T, whether checkSlow is compiled in); AllocData: the Data pointer of
\* each allocator instance; Alive: whether the instance is within its
\* lifetime; Heap: the memory subsystem; lastMem: the allocator call that
\* produced the current state.
VARIABLES Build, AllocData, Alive, Heap, lastMem

\* Retired: the slot identifiers of the elements removed from Pairs since
\* the last compaction and not handed out again since (history).
VARIABLES Retired

\* MapData: the backing storage used by the element set of each of two
\* further maps; Store: the content of each storage; lastMap: the call on
\* these maps that produced the current state.
VARIABLES MapData, Store, lastMap

\* Table: a map used by several threads; Start: the map as the threads found
\* it; Thread: each thread's call; Lock: the thread that holds the external
\* lock.
VARIABLES Table, Start, Thread, Lock

\* LogCore: the log category of the core; MinimumVerbosity: the build's
\* COMPILED_IN_MINIMUM_VERBOSITY; GIsRetrievingVTablePtr: the global of that
\* name; lastLog: the last use of the log macros.
VARIABLES LogCore, MinimumVerbosity, GIsRetrievingVTablePtr, lastLog

\* OtherFiles: the config cache's map from filename to config file;
\* ConfigFiles: for each FConfigFile object allocated so far, the number of
\* times it was deleted; lastCache: the last call on the config cache.
VARIABLES OtherFiles, ConfigFiles, lastCache

\* GameIni: the bSupportCookedEditor setting of the game ini;
\* bProjectSupportsCookedEditor: the static of GetShaderPermutationFlags;
\* ConfigReads: the number of times the setting was read (history);
\* ShaderCalls: the number of calls of GetShaderPermutationFlags (history);
\* lastShader: the last of these calls.
VARIABLES GameIni, bProjectSupportsCookedEditor, ConfigReads, ShaderCalls, lastShader

mapVars == <<Pairs, Other, lastOp, lastAdd, ArrayMax, It>>

idVars == <<Retired>>

copyVars == <<MapData, Store, lastMap>>

lockVars == <<Table, Start, Thread, Lock>>

logVars == <<LogCore, MinimumVerbosity, GIsRetrievingVTablePtr, lastLog>>

cacheVars == <<OtherFiles, ConfigFiles, lastCache>>

shaderVars == <<GameIni, bProjectSupportsCookedEditor, ConfigReads, ShaderCalls, lastShader>>

coreVars == <<logVars, cacheVars, shaderVars>>

auxVars == <<idVars, copyVars, lockVars, coreVars>>

memVars == <<Build, AllocData, Alive, Heap, lastMem>>

vars == <<mapVars, memVars, auxVars>>

Builds == [SizeTBits : SizeTWidths, bDoCheckSlow : BOOLEAN]

\* The record of a call: its name, arguments (key, value, comparator) and
\* results (returned value or count, slot of the returned reference); had
\* tells whether an insertion found its key already stored, rep whether the
\* call repeats the call before it (same operation, same key); out is the
\* collection the call produced, when it produces one; after names, where it
\* matters, the call made right before; checks tells whether
\* the call ran in a build with checks compiled in, fatal whether it ended in
\* a fatal assertion, which ends the program.
Call(op, k, v, p, ret, id) ==
    [op |-> op, key |-> k, val |-> v, pred |-> p, ret |-> ret, id |-> id,
     iters |-> 0, finds |-> 0, had |-> FALSE, rep |-> FALSE, out |-> <<>>,
     checks |-> FALSE, fatal |-> FALSE, after |-> ""]

InitMap ==
    /\ Pairs = EmptySet
    /\ Other = EmptySet
    /\ lastOp = Call("Init", 0, 0, "", 0, NoId)
    /\ lastAdd = [k \in Keys |-> {}]
    /\ ArrayMax = 0
    /\ It = NoIterator

\* A call on an allocator instance: the instance (inst), the argument of a
\* move (other), the index width of the instance's allocator, the arguments
\* of a resize, the overload called (aligned), whether the instance held a
\* block before the call (had), whether the fatal hook was invoked (hook),
\* whether Realloc was called (realloc) and with what byte count (bytes), and
\* whether the call ended the process (fatal).
MemCall(op, inst) ==
    [op |-> op, inst |-> inst, other |-> 0, IndexBits |-> 0, NumElements |-> 0,
     NumBytesPerElement |-> 0, aligned |-> FALSE, had |-> FALSE, hook |-> FALSE,
     realloc |-> FALSE, bytes |-> 0, fatal |-> FALSE]

\* Every allocator instance constructed and holding no block
InitMem ==
    /\ AllocData = [i \in Insts |-> NullPtr]
    /\ Alive = [i \in Insts |-> TRUE]
    /\ Heap = EmptyHeap
    /\ lastMem = MemCall("Init", 0)

InitId ==
    /\ Retired = {}

InitCopy ==
    /\ MapData = [m \in MapIds |-> NoStore]
    /\ Store = [s \in StoreIds |-> EmptySet]
    /\ lastMap = MapCall("Init", 0, 0)

InitLock ==
    /\ Table = EmptySet
    /\ Start = EmptySet
    /\ Thread = [t \in Threads |-> IdleThread]
    /\ Lock = NoThread

InitLogDefault ==
    /\ LogCore = [CompileTimeVerbosity |-> NumVerbosity - 1, Verbosity |-> NumVerbosity - 1]
    /\ MinimumVerbosity = NumVerbosity - 1
    /\ GIsRetrievingVTablePtr = FALSE
    /\ lastLog = LogCall("Init", 0, FALSE, FALSE, LogOutcome(FALSE, ""))

InitCache ==
    /\ OtherFiles = EmptySet
    /\ ConfigFiles = <<>>
    /\ lastCache = CacheCall("Init", 0, FALSE, 0)

InitShader ==
    /\ GameIni \in Configs
    /\ bProjectSupportsCookedEditor = NotInitialized
    /\ ConfigReads = 0
    /\ ShaderCalls = 0
    /\ lastShader = ShaderCall("Init", FALSE, None)

InitShaderDefault ==
    /\ InitShader
    /\ GameIni = [found |-> FALSE, value |-> FALSE]

InitCore ==
    /\ InitLogDefault
    /\ InitCache
    /\ InitShaderDefault

InitAux ==
    /\ InitId
    /\ InitCopy
    /\ InitLock
    /\ InitCore

Init ==
    /\ InitMap
    /\ Build = [SizeTBits |-> 16, bDoCheckSlow |-> FALSE]
    /\ InitMem
    /\ InitAux

AddAct ==
    \E k \in Keys, v \in Vals :
        /\ LET r == Add(Pairs, k, v)
           IN /\ Pairs' = r.Pairs
              /\ lastOp' = [Call("Add", k, v, "", r.ret, r.id)
                              EXCEPT !.had = (Find(Pairs, k) # Null)]
        /\ lastAdd' = [lastAdd EXCEPT ![k] = {v}]
        /\ UNCHANGED <<Other, ArrayMax, It, memVars, auxVars>>

RemoveAct ==
    \E k \in Keys :
        /\ LET r == Remove(Pairs, k)
           IN /\ Pairs' = r.Pairs
              /\ lastOp' = Call("Remove", k, 0, "", r.ret, NoId)
        /\ lastAdd' = [lastAdd EXCEPT ![k] = {}]
        /\ UNCHANGED <<Other, ArrayMax, It, memVars, auxVars>>

ResetAct ==
    /\ Pairs' = Reset(Pairs)
    /\ lastOp' = Call("Reset", 0, 0, "", 0, NoId)
    /\ lastAdd' = [k \in Keys |-> {}]
    /\ UNCHANGED <<Other, ArrayMax, It, memVars, auxVars>>

Next ==
    \/ AddAct
    \/ RemoveAct
    \/ ResetAct

Spec == Init /\ [][Next]_vars

\* ---- maps built by Add and Remove; the build steps record only their name
BuildAddAct ==
    \E k \in Keys, v \in Vals :
        /\ ~lastOp.fatal
        /\ Pairs' = Add(Pairs, k, v).Pairs
        /\ lastOp' = Call("BuildAdd", 0, 0, "", 0, NoId)
        /\ lastAdd' = [lastAdd EXCEPT ![k] = {v}]
        /\ UNCHANGED <<Other, ArrayMax, It, memVars, auxVars>>

BuildRemoveAct ==
    \E k \in Keys :
        /\ ~lastOp.fatal
        /\ Pairs' = Remove(Pairs, k).Pairs
        /\ lastOp' = Call("BuildRemove", 0, 0, "", 0, NoId)
        /\ lastAdd' = [lastAdd EXCEPT ![k] = {}]
        /\ UNCHANGED <<Other, ArrayMax, It, memVars, auxVars>>

\* The default passed is recorded only through its effect (the value stored
\* when the key was absent).
FindOrAddAct ==
    \E k \in Keys, d \in Vals :
        /\ LET r == FindOrAdd(Pairs, k, d)
           IN /\ Pairs' = r.Pairs
              /\ lastOp' = [Call("FindOrAdd", k, 0, "", r.ret, r.id)
                              EXCEPT !.had = (Find(Pairs, k) # Null),
                                     !.rep = (lastOp.op = "FindOrAdd" /\ lastOp.key = k)]
              /\ lastAdd' = IF Find(Pairs, k) = Null
                            THEN [lastAdd EXCEPT ![k] = {d}] ELSE lastAdd
        /\ UNCHANGED <<Other, ArrayMax, It, memVars, auxVars>>

\* FindOrAdd with the default recorded: FindOrAdd(Key, Value) and
\* FindOrAdd(Key)
FindOrAddValueAct ==
    \E k \in CmpKeys, d \in Vals :
        /\ LET r == FindOrAdd(Pairs, k, d)
           IN /\ Pairs' = r.Pairs
              /\ lastOp' = [Call("FindOrAddValue", k, d, "", r.ret, r.id)
                              EXCEPT !.had = (Find(Pairs, k) # Null)]
              /\ lastAdd' = IF Find(Pairs, k) = Null
                            THEN [lastAdd EXCEPT ![k] = {d}] ELSE lastAdd
        /\ UNCHANGED <<Other, ArrayMax, It, memVars, auxVars>>

FindOrAddKeyAct ==
    \E k \in CmpKeys :
        /\ LET r == FindOrAddKey(Pairs, k)
           IN /\ Pairs' = r.Pairs
              /\ lastOp' = [Call("FindOrAddKey", k, DefaultValue, "", r.ret, r.id)
                              EXCEPT !.had = (Find(Pairs, k) # Null)]
              /\ lastAdd' = IF Find(Pairs, k) = Null
                            THEN [lastAdd EXCEPT ![k] = {DefaultValue}] ELSE lastAdd
        /\ UNCHANGED <<Other, ArrayMax, It, memVars, auxVars>>

FindOrAddRemoveAct ==
    \E k \in CmpKeys :
        /\ Pairs' = Remove(Pairs, k).Pairs
        /\ lastOp' = Call("BuildRemove", 0, 0, "", 0, NoId)
        /\ lastAdd' = [lastAdd EXCEPT ![k] = {}]
        /\ UNCHANGED <<Other, ArrayMax, It, memVars, auxVars>>

NextFindOrAdd ==
    \/ FindOrAddRemoveAct
    \/ FindOrAddValueAct
    \/ FindOrAddKeyAct

SpecFindOrAdd == Init /\ [][NextFindOrAdd]_vars

\* ---- insertion and removal with a hash computed by the caller
AddByHashAct ==
    \E k \in CmpKeys, v \in Vals :
        /\ LET r == AddByHash(Pairs, GetKeyHash(k), k, v)
           IN /\ Pairs' = r.Pairs
              /\ lastOp' = [Call("AddByHash", k, v, "", r.ret, r.id)
                              EXCEPT !.had = (Find(Pairs, k) # Null)]
        /\ lastAdd' = [lastAdd EXCEPT ![k] = {v}]
        /\ UNCHANGED <<Other, ArrayMax, It, memVars, auxVars>>

RemoveByHashAct ==
    \E k \in CmpKeys :
        /\ LET r == RemoveByHash(Pairs, GetKeyHash(k), k)
           IN /\ Pairs' = r.Pairs
              /\ lastOp' = [Call("RemoveByHash", k, 0, "", r.ret, NoId)
                              EXCEPT !.had = (Find(Pairs, k) # Null)]
        /\ lastAdd' = [lastAdd EXCEPT ![k] = {}]
        /\ UNCHANGED <<Other, ArrayMax, It, memVars, auxVars>>

NextByHash ==
    \/ AddByHashAct
    \/ RemoveByHashAct

SpecByHash == Init /\ [][NextByHash]_vars

\* ---- key objects that are equal as keys
\* The key objects of the keys of CmpKeys, two for each
KeyObjects == CmpKeys \cup {k + KeyStride : k \in CmpKeys}

KeyObjectAddAct ==
    \E k \in KeyObjects, v \in Vals :
        /\ LET r == Add(Pairs, k, v)
           IN /\ Pairs' = r.Pairs
              /\ lastOp' = [Call("KeyObjectAdd", k, v, "", r.ret, r.id)
                              EXCEPT !.had = (Find(Pairs, k) # Null)]
        /\ UNCHANGED <<Other, lastAdd, ArrayMax, It, memVars, auxVars>>

KeyObjectRemoveAct ==
    \E k \in KeyObjects :
        /\ LET r == Remove(Pairs, k)
           IN /\ Pairs' = r.Pairs
              /\ lastOp' = Call("KeyObjectRemove", k, 0, "", r.ret, NoId)
        /\ UNCHANGED <<Other, lastAdd, ArrayMax, It, memVars, auxVars>>

NextKeyObject ==
    \/ KeyObjectAddAct
    \/ KeyObjectRemoveAct

SpecKeyObject == Init /\ [][NextKeyObject]_vars

NextFind ==
    \/ BuildAddAct
    \/ BuildRemoveAct
    \/ FindOrAddAct

SpecFind == Init /\ [][NextFind]_vars

\* ---- sorting
KeySortAct ==
    \E p \in Predicates : \E R \in KeySort(Pairs, p) :
        /\ Pairs' = R
        /\ lastOp' = Call("KeySort", 0, 0, p, 0, NoId)
        /\ UNCHANGED <<Other, lastAdd, ArrayMax, It, memVars, auxVars>>

KeyStableSortAct ==
    \E p \in Predicates : \E R \in KeyStableSort(Pairs, p) :
        /\ Pairs' = R
        /\ lastOp' = Call("KeyStableSort", 0, 0, p, 0, NoId)
        /\ UNCHANGED <<Other, lastAdd, ArrayMax, It, memVars, auxVars>>

ValueSortAct ==
    \E p \in Predicates : \E R \in ValueSort(Pairs, p) :
        /\ Pairs' = R
        /\ lastOp' = Call("ValueSort", 0, 0, p, 0, NoId)
        /\ UNCHANGED <<Other, lastAdd, ArrayMax, It, memVars, auxVars>>

ValueStableSortAct ==
    \E p \in Predicates : \E R \in ValueStableSort(Pairs, p) :
        /\ Pairs' = R
        /\ lastOp' = Call("ValueStableSort", 0, 0, p, 0, NoId)
        /\ UNCHANGED <<Other, lastAdd, ArrayMax, It, memVars, auxVars>>

NextSort ==
    \/ BuildAddAct
    \/ BuildRemoveAct
    \/ KeySortAct
    \/ KeyStableSortAct
    \/ ValueSortAct
    \/ ValueStableSortAct

SpecSort == Init /\ [][NextSort]_vars

\* ---- two maps built by insertions, compared with OrderIndependentCompareEqual
\* An insertion constructs the new pair in a fresh slot before it looks for
\* an equal key, so it needs a free slot or room to append one.
HasRoom(P, cap) == Len(P.Free) > 0 \/ Len(P.Data) < cap

CmpAddAct ==
    \E k \in CmpKeys, v \in Vals :
        /\ HasRoom(Pairs, MaxCmpSlots)
        /\ Pairs' = Add(Pairs, k, v).Pairs
        /\ lastOp' = Call("Add", k, v, "", v, Add(Pairs, k, v).id)
        /\ lastAdd' = [lastAdd EXCEPT ![k] = {v}]
        /\ UNCHANGED <<Other, ArrayMax, It, memVars, auxVars>>

CmpOtherAddAct ==
    \E k \in CmpKeys, v \in Vals :
        /\ HasRoom(Other, MaxCmpSlots)
        /\ Other' = Add(Other, k, v).Pairs
        /\ lastOp' = Call("OtherAdd", k, v, "", v, Add(Other, k, v).id)
        /\ UNCHANGED <<Pairs, lastAdd, ArrayMax, It, memVars, auxVars>>

CompareAct ==
    /\ LET r == OrderIndependentCompareEqual(Pairs, Other)
       IN lastOp' = [Call("Compare", 0, 0, "", IF r.ret THEN 1 ELSE 0, NoId)
                       EXCEPT !.iters = r.iters, !.finds = r.finds]
    /\ UNCHANGED <<Pairs, Other, lastAdd, ArrayMax, It, memVars, auxVars>>

NextCmp ==
    \/ CmpAddAct
    \/ CmpOtherAddAct
    \/ CompareAct

SpecCmp == Init /\ [][NextCmp]_vars

\* ---- lookups that always return: FindRef
FindRefAct ==
    \E k \in Keys :
        /\ ~lastOp.fatal
        /\ LET r == FindRef(Pairs, k)
           IN /\ Pairs' = r.Pairs
              /\ lastOp' = Call("FindRef", k, 0, "", r.ret, NoId)
        /\ UNCHANGED <<Other, lastAdd, ArrayMax, It, memVars, auxVars>>

NextRef ==
    \/ BuildAddAct
    \/ BuildRemoveAct
    \/ FindRefAct

SpecRef == Init /\ [][NextRef]_vars

\* ---- checked lookup: FindChecked, in a build with or without checks
FindCheckedAct ==
    \E k \in Keys, bDoCheck \in BOOLEAN : \E r \in FindChecked(Pairs, k, bDoCheck) :
        /\ ~lastOp.fatal
        /\ lastOp' = [Call("FindChecked", k, 0, "", r.ret, r.id)
                        EXCEPT !.checks = bDoCheck, !.fatal = r.fatal]
        /\ UNCHANGED <<Pairs, Other, lastAdd, ArrayMax, It, memVars, auxVars>>

NextChecked ==
    \/ BuildAddAct
    \/ BuildRemoveAct
    \/ FindCheckedAct

SpecChecked == Init /\ [][NextChecked]_vars

\* ---- filtering; out is the map returned
FilterByPredicateAct ==
    \E f \in PairPredicates :
        /\ ~lastOp.fatal
        /\ LET r == FilterByPredicate(Pairs, f)
           IN /\ Pairs' = r.Pairs
              /\ lastOp' = [Call("FilterByPredicate", 0, 0, f, 0, NoId)
                              EXCEPT !.out = r.FilterResults]
        /\ UNCHANGED <<Other, lastAdd, ArrayMax, It, memVars, auxVars>>

NextFilter ==
    \/ BuildAddAct
    \/ BuildRemoveAct
    \/ FilterByPredicateAct

SpecFilter == Init /\ [][NextFilter]_vars

\* ---- compaction; ret records GetMaxIndex() before the call
CompactAct ==
    /\ ~lastOp.fatal
    /\ Pairs' = Compact(Pairs)
    /\ lastOp' = Call("Compact", 0, 0, "", GetMaxIndex(Pairs), NoId)
    /\ UNCHANGED <<Other, lastAdd, ArrayMax, It, memVars, auxVars>>

CompactStableAct ==
    /\ ~lastOp.fatal
    /\ Pairs' = CompactStable(Pairs)
    /\ lastOp' = Call("CompactStable", 0, 0, "", GetMaxIndex(Pairs), NoId)
    /\ UNCHANGED <<Other, lastAdd, ArrayMax, It, memVars, auxVars>>

NextCompact ==
    \/ BuildAddAct
    \/ BuildRemoveAct
    \/ CompactAct
    \/ CompactStableAct

SpecCompact == Init /\ [][NextCompact]_vars

\* ---- removal through the mutable iterator
\* The map is changed directly only while no iterator is open.
IterAddAct ==
    \E k \in CmpKeys, v \in Vals :
        /\ ~It.live
        /\ Pairs' = Add(Pairs, k, v).Pairs
        /\ lastOp' = Call("BuildAdd", 0, 0, "", 0, NoId)
        /\ lastAdd' = [lastAdd EXCEPT ![k] = {v}]
        /\ UNCHANGED <<Other, ArrayMax, It, memVars, auxVars>>

\* CreateIterator() passes no flag; the constructor takes either.
CreateIteratorAct ==
    \E bInRequiresRehashOnRemoval \in BOOLEAN :
        /\ ~It.live
        /\ It' = TIterator(Pairs, bInRequiresRehashOnRemoval)
        /\ lastOp' = Call("TIterator", 0, 0, "", 0, NoId)
        /\ UNCHANGED <<Pairs, Other, lastAdd, ArrayMax, memVars, auxVars>>

IncrementAct ==
    /\ It.live
    /\ It.id # NoId
    /\ It' = Increment(Pairs, It)
    /\ lastOp' = Call("Increment", 0, 0, "", 0, NoId)
    /\ UNCHANGED <<Pairs, Other, lastAdd, ArrayMax, memVars, auxVars>>

RemoveCurrentAct ==
    /\ It.live
    /\ SetIsValidId(Pairs, It.id)
    /\ LET r == RemoveCurrent(Pairs, It)
       IN /\ Pairs' = r.Pairs
          /\ It' = r.It
    /\ lastOp' = Call("RemoveCurrent", 0, 0, "", 0, NoId)
    /\ lastAdd' = [lastAdd EXCEPT ![Pairs.Data[It.id].key] = {}]
    /\ UNCHANGED <<Other, ArrayMax, memVars, auxVars>>

DestroyIteratorAct ==
    /\ It.live
    /\ LET r == IteratorDestructor(Pairs, It)
       IN /\ Pairs' = r.Pairs
          /\ It' = r.It
    /\ lastOp' = Call("~TIterator", 0, 0, "", 0, NoId)
    /\ UNCHANGED <<Other, lastAdd, ArrayMax, memVars, auxVars>>

NextIter ==
    \/ IterAddAct
    \/ CreateIteratorAct
    \/ IncrementAct
    \/ RemoveCurrentAct
    \/ DestroyIteratorAct

SpecIter == Init /\ [][NextIter]_vars

\* ---- iterators told apart by how they were obtained
InitObtained ==
    /\ Pairs = EmptySet
    /\ Other = EmptySet
    /\ lastOp = Call("Init", 0, 0, "", 0, NoId)
    /\ lastAdd = [k \in Keys |-> {}]
    /\ ArrayMax = 0
    /\ It = Obtained(NoIterator, "")
    /\ Build = [SizeTBits |-> 16, bDoCheckSlow |-> FALSE]
    /\ InitMem
    /\ InitAux

ObtainIteratorAct ==
    /\ ~It.live
    /\ It' = Obtained(CreateIterator(Pairs), "CreateIterator")
    /\ lastOp' = Call("CreateIterator", 0, 0, "", 0, NoId)
    /\ UNCHANGED <<Pairs, Other, lastAdd, ArrayMax, memVars, auxVars>>

ConstructIteratorAct ==
    \E bInRequiresRehashOnRemoval \in BOOLEAN :
        /\ ~It.live
        /\ It' = Obtained(TIterator(Pairs, bInRequiresRehashOnRemoval), "TIterator")
        /\ lastOp' = Call("TIterator", 0, 0, "", 0, NoId)
        /\ UNCHANGED <<Pairs, Other, lastAdd, ArrayMax, memVars, auxVars>>

NextObtained ==
    \/ IterAddAct
    \/ ObtainIteratorAct
    \/ ConstructIteratorAct
    \/ IncrementAct
    \/ RemoveCurrentAct
    \/ DestroyIteratorAct

SpecObtained == InitObtained /\ [][NextObtained]_vars

\* ---- key extraction and reverse lookup
\* What the caller's output collection may hold before the call.
OutSamples == {<<>>, <<MaxKey>>, <<1, 1>>}

\* had tells whether the output collection held anything before the call.
GetKeysAct ==
    \E old \in OutSamples :
        /\ ~lastOp.fatal
        /\ LET r == GetKeys(Pairs, old)
           IN lastOp' = [Call("GetKeys", 0, 0, "", r.ret, NoId)
                           EXCEPT !.out = r.OutKeys, !.had = (old # <<>>)]
        /\ UNCHANGED <<Pairs, Other, lastAdd, ArrayMax, It, memVars, auxVars>>

GetKeysSetAct ==
    \E old \in OutSamples :
        /\ ~lastOp.fatal
        /\ LET r == GetKeysSet(Pairs, old)
           IN lastOp' = [Call("GetKeysSet", 0, 0, "", r.ret, NoId)
                           EXCEPT !.out = r.OutKeys, !.had = (old # <<>>)]
        /\ UNCHANGED <<Pairs, Other, lastAdd, ArrayMax, It, memVars, auxVars>>

\* key and id record the key pointed to and its slot, val the value sought.
FindKeyAct ==
    \E v \in Vals :
        /\ ~lastOp.fatal
        /\ LET r == FindKey(Pairs, v)
           IN lastOp' = Call("FindKey", r.key, v, "", 0, r.id)
        /\ UNCHANGED <<Pairs, Other, lastAdd, ArrayMax, It, memVars, auxVars>>

NextKeys ==
    \/ BuildAddAct
    \/ BuildRemoveAct
    \/ GetKeysAct
    \/ GetKeysSetAct
    \/ FindKeyAct

SpecKeys == Init /\ [][NextKeys]_vars

\* ---- allocation: Reserve, Shrink, Reset and the size of the allocation
\* The steps of this specification follow ArrayMax.  For Reserve on a map
\* without elements, and for the insertions of absent keys that follow it
\* directly (at most as many as reserved), lastOp records the number
\* reserved (key), the insertions since (val) and the allocated size right
\* after the Reserve (ret), and had is TRUE.
InReserveRun == lastOp.op \in {"Reserve", "ReserveAdd"} /\ lastOp.had

AllocReserveAct ==
    \E n \in 0..MaxReserve :
        /\ Pairs' = Reserve(Pairs, n)
        /\ ArrayMax' = ResizeGrow(ArrayMax, Len(Pairs'.Data))
        /\ lastOp' = [Call("Reserve", n, 0, "", GetAllocatedSize(Pairs', ArrayMax'), NoId)
                        EXCEPT !.had = (Num(Pairs) = 0)]
        /\ UNCHANGED <<Other, lastAdd, It, memVars, auxVars>>

AllocAddAct ==
    \E k \in CmpKeys, v \in Vals :
        /\ Pairs' = Add(Pairs, k, v).Pairs
        /\ ArrayMax' = ResizeGrow(ArrayMax, Len(Pairs'.Data))
        /\ lastOp' = IF InReserveRun /\ Find(Pairs, k) = Null /\ lastOp.val < lastOp.key
                     THEN [lastOp EXCEPT !.op = "ReserveAdd", !.val = @ + 1]
                     ELSE Call("BuildAdd", 0, 0, "", 0, NoId)
        /\ lastAdd' = [lastAdd EXCEPT ![k] = {v}]
        /\ UNCHANGED <<Other, It, memVars, auxVars>>

AllocRemoveAct ==
    \E k \in CmpKeys :
        /\ Pairs' = Remove(Pairs, k).Pairs
        /\ lastOp' = Call("BuildRemove", 0, 0, "", 0, NoId)
        /\ lastAdd' = [lastAdd EXCEPT ![k] = {}]
        /\ UNCHANGED <<Other, ArrayMax, It, memVars, auxVars>>

\* had tells whether the Shrink ends a run of Reserve and insertions.
AllocShrinkAct ==
    /\ Pairs' = Shrink(Pairs)
    /\ ArrayMax' = ResizeShrink(ArrayMax, Len(Pairs'.Data))
    /\ lastOp' = [Call("Shrink", 0, 0, "", GetAllocatedSize(Pairs', ArrayMax'), NoId)
                    EXCEPT !.had = InReserveRun]
    /\ UNCHANGED <<Other, lastAdd, It, memVars, auxVars>>

\* The slots' storage is kept (TArray::Reset); had tells whether the map
\* held elements.
AllocResetAct ==
    /\ Pairs' = Reset(Pairs)
    /\ UNCHANGED <<Other, ArrayMax, It, memVars, auxVars>>
    /\ lastOp' = [Call("Reset", 0, 0, "", GetAllocatedSize(Pairs', ArrayMax'), NoId)
                    EXCEPT !.had = (Num(Pairs) > 0)]
    /\ lastAdd' = [k \in Keys |-> {}]

NextAlloc ==
    \/ AllocReserveAct
    \/ AllocAddAct
    \/ AllocRemoveAct
    \/ AllocShrinkAct
    \/ AllocResetAct

SpecAlloc == Init /\ [][NextAlloc]_vars

\* ---- slot identifiers: insertions, removals, compaction and the free list
\* Retired follows the identifiers of removed elements: a removal retires
\* the slot it frees, an insertion takes the slot it is given out of the
\* set, a compaction empties it.  An insertion made right after a
\* SortFreeList that found a free slot records so (after).
IdAddAct ==
    \E k \in CmpKeys, v \in Vals :
        /\ LET r == Add(Pairs, k, v)
           IN /\ Pairs' = r.Pairs
              /\ lastOp' = [Call("Add", k, v, "", r.ret, r.id)
                              EXCEPT !.had = (Find(Pairs, k) # Null),
                                     !.after = IF lastOp.op = "SortFreeList" /\ lastOp.had
                                               THEN "SortFreeList" ELSE ""]
              /\ Retired' = Retired \ {r.id}
        /\ UNCHANGED <<Other, lastAdd, ArrayMax, It, memVars, copyVars, lockVars, coreVars>>

\* id records the slot of the pair removed (NoId when the key is absent).
IdRemoveAct ==
    \E k \in CmpKeys :
        /\ LET r == Remove(Pairs, k)
               id == Find(Pairs, k).id
           IN /\ Pairs' = r.Pairs
              /\ lastOp' = Call("Remove", k, 0, "", r.ret, id)
              /\ Retired' = Retired \cup ({id} \ {NoId})
        /\ UNCHANGED <<Other, lastAdd, ArrayMax, It, memVars, copyVars, lockVars, coreVars>>

IdCompactAct ==
    /\ Pairs' = Compact(Pairs)
    /\ lastOp' = Call("Compact", 0, 0, "", 0, NoId)
    /\ Retired' = {}
    /\ UNCHANGED <<Other, lastAdd, ArrayMax, It, memVars, copyVars, lockVars, coreVars>>

\* had tells whether the free list held a slot.
SortFreeListAct ==
    /\ Pairs' = SortFreeList(Pairs)
    /\ lastOp' = [Call("SortFreeList", 0, 0, "", 0, NoId) EXCEPT !.had = (Len(Pairs.Free) > 0)]
    /\ UNCHANGED <<Other, lastAdd, ArrayMax, It, memVars, idVars, copyVars, lockVars, coreVars>>

NextId ==
    \/ IdAddAct
    \/ IdRemoveAct
    \/ IdCompactAct
    \/ SortFreeListAct

SpecId == Init /\ [][NextId]_vars

\* ---- two maps copied and moved into one another, and changed in between

\* construct tells a constructor from an assignment; the two leave the same
\* maps.
CopyAct ==
    \E This \in MapIds, From \in MapIds, construct \in BOOLEAN :
        /\ This # From
        /\ LET r == CopyAssign(MapData, Store, This, From)
           IN /\ MapData' = r.MapData
              /\ Store' = r.Store
        /\ lastMap' = MapCall(IF construct THEN "CopyConstruct" ELSE "CopyAssign", This, From)
        /\ UNCHANGED <<mapVars, memVars, idVars, lockVars, coreVars>>

MoveAct ==
    \E This \in MapIds, From \in MapIds, construct \in BOOLEAN :
        /\ This # From
        /\ LET r == MoveAssign(MapData, Store, This, From)
           IN /\ MapData' = r.MapData
              /\ Store' = r.Store
        /\ lastMap' = MapCall(IF construct THEN "MoveConstruct" ELSE "MoveAssign", This, From)
        /\ UNCHANGED <<mapVars, memVars, idVars, lockVars, coreVars>>

MapAddAct ==
    \E m \in MapIds, k \in CmpKeys, v \in {MaxVal} :
        /\ HasRoom(Elements(MapData, Store, m), MaxCmpSlots)
        /\ LET r == WriteElements(MapData, Store, m, Add(Elements(MapData, Store, m), k, v).Pairs)
           IN /\ MapData' = r.MapData
              /\ Store' = r.Store
        /\ lastMap' = MapCall("Add", m, 0)
        /\ UNCHANGED <<mapVars, memVars, idVars, lockVars, coreVars>>

MapRemoveAct ==
    \E m \in MapIds, k \in CmpKeys :
        /\ LET r == WriteElements(MapData, Store, m, Remove(Elements(MapData, Store, m), k).Pairs)
           IN /\ MapData' = r.MapData
              /\ Store' = r.Store
        /\ lastMap' = MapCall("Remove", m, 0)
        /\ UNCHANGED <<mapVars, memVars, idVars, lockVars, coreVars>>

MapResetAct ==
    \E m \in MapIds :
        /\ LET r == WriteElements(MapData, Store, m, Reset(Elements(MapData, Store, m)))
           IN /\ MapData' = r.MapData
              /\ Store' = r.Store
        /\ lastMap' = MapCall("Reset", m, 0)
        /\ UNCHANGED <<mapVars, memVars, idVars, lockVars, coreVars>>

NextCopy ==
    \/ CopyAct
    \/ MoveAct
    \/ MapAddAct
    \/ MapRemoveAct
    \/ MapResetAct

SpecCopy == Init /\ [][NextCopy]_vars

\* ---- threads that hash outside the lock and use the table while holding it
InitLocked ==
    /\ InitMap
    /\ Build = [SizeTBits |-> 16, bDoCheckSlow |-> FALSE]
    /\ InitMem
    /\ InitId
    /\ InitCopy
    /\ Table \in StartMaps
    /\ Start = Table
    /\ Thread = [t \in Threads |-> IdleThread]
    /\ Lock = NoThread
    /\ InitCore

\* Thread t chooses a call and computes the key hash, without the lock; the
\* value it brings is its own.
HashAct ==
    \E t \in Threads, op \in TableOps, k \in CmpKeys :
        /\ Thread[t].pc = "idle"
        /\ Thread' = [Thread EXCEPT ![t] =
                        [IdleThread EXCEPT !.pc = "hashed", !.op = op, !.key = k,
                                           !.val = t, !.hash = HashKey(k)]]
        /\ UNCHANGED <<Table, Start, Lock, mapVars, memVars, idVars, copyVars, coreVars>>

\* Thread t takes the lock and starts its table operation.
AcquireAct ==
    \E t \in Threads :
        /\ Thread[t].pc = "hashed"
        /\ CanAcquire(Lock)
        /\ Lock' = t
        /\ Thread' = [Thread EXCEPT ![t].pc = "inside",
                                    ![t].probe = TableProbe(Table, Thread[t])]
        /\ UNCHANGED <<Table, Start, mapVars, memVars, idVars, copyVars, coreVars>>

\* The operation of thread t returns and the thread gives up the lock.
ReleaseAct ==
    \E t \in Threads :
        /\ Thread[t].pc = "inside"
        /\ LET r == TableFinish(Table, Thread[t])
           IN /\ Table' = r.Pairs
              /\ Thread' = [Thread EXCEPT ![t].pc = "done", ![t].ret = r.ret]
        /\ Lock' = NoThread
        /\ UNCHANGED <<Start, mapVars, memVars, idVars, copyVars, coreVars>>

\* All calls have returned: the threads start over on the map as it is.
AgainAct ==
    /\ \A t \in Threads : Thread[t].pc = "done"
    /\ HasRoom(Table, MaxCmpSlots)
    /\ Start' = Table
    /\ Thread' = [t \in Threads |-> IdleThread]
    /\ UNCHANGED <<Table, Lock, mapVars, memVars, idVars, copyVars, coreVars>>

NextLocked ==
    \/ HashAct
    \/ AcquireAct
    \/ ReleaseAct
    \/ AgainAct

SpecLocked == InitLocked /\ [][NextLocked]_vars

\* ---- the log macros and the constructor that logs
InitLog ==
    /\ InitMap
    /\ Build = [SizeTBits |-> 16, bDoCheckSlow |-> FALSE]
    /\ InitMem
    /\ InitId
    /\ InitCopy
    /\ InitLock
    /\ LogCore \in LogCategories
    /\ MinimumVerbosity \in CategoryVerbosities
    /\ GIsRetrievingVTablePtr = FALSE
    /\ lastLog = LogCall("Init", 0, FALSE, FALSE, LogOutcome(FALSE, ""))
    /\ InitCache
    /\ InitShaderDefault

\* The verbosity of the category is set.
SetVerbosityAct ==
    \E V \in CategoryVerbosities :
        /\ ~lastLog.fatal
        /\ LogCore' = [LogCore EXCEPT !.Verbosity = V]
        /\ UNCHANGED <<MinimumVerbosity, GIsRetrievingVTablePtr, lastLog,
                       mapVars, memVars, idVars, copyVars, lockVars, cacheVars, shaderVars>>

\* The retrieval of a vtable pointer begins or ends.
SetRetrievingAct ==
    /\ ~lastLog.fatal
    /\ GIsRetrievingVTablePtr' = ~GIsRetrievingVTablePtr
    /\ UNCHANGED <<LogCore, MinimumVerbosity, lastLog,
                   mapVars, memVars, idVars, copyVars, lockVars, cacheVars, shaderVars>>

\* UE_CLOG(Condition, LogCore, V, ...) with a condition of either value
ClogAct ==
    \E V \in Verbosities, Condition \in BOOLEAN :
        /\ ~lastLog.fatal
        /\ lastLog' = LogCall("UE_CLOG", V, Condition,
                              CategoryActive(LogCore, V, MinimumVerbosity),
                              UE_CLOG(Condition, LogCore, V, MinimumVerbosity))
        /\ UNCHANGED <<LogCore, MinimumVerbosity, GIsRetrievingVTablePtr,
                       mapVars, memVars, idVars, copyVars, lockVars, cacheVars, shaderVars>>

\* FConfigCacheIni is constructed through its default constructor.
DefaultCtorAct ==
    /\ ~lastLog.fatal
    /\ lastLog' = LogCall("FConfigCacheIni", Fatal, ~GIsRetrievingVTablePtr,
                          CategoryActive(LogCore, Fatal, MinimumVerbosity),
                          FConfigCacheIniDefaultCtor(GIsRetrievingVTablePtr, LogCore,
                                                     MinimumVerbosity))
    /\ UNCHANGED <<LogCore, MinimumVerbosity, GIsRetrievingVTablePtr,
                   mapVars, memVars, idVars, copyVars, lockVars, cacheVars, shaderVars>>

NextLog ==
    \/ SetVerbosityAct
    \/ SetRetrievingAct
    \/ ClogAct
    \/ DefaultCtorAct

SpecLog == InitLog /\ [][NextLog]_vars

\* ---- the config cache's other files
CacheAddAct ==
    \E Filename \in Filenames :
        /\ Len(ConfigFiles) < MaxFiles
        /\ LET r == FConfigCacheIniAdd(OtherFiles, ConfigFiles, Filename)
           IN /\ OtherFiles' = r.OtherFiles
              /\ ConfigFiles' = r.Files
              /\ lastCache' = CacheCall("Add", Filename, (SetFindId(OtherFiles, Filename) # NoId), r.ret)
        /\ UNCHANGED <<mapVars, memVars, idVars, copyVars, lockVars, logVars, shaderVars>>

CacheRemoveAct ==
    \E Filename \in Filenames :
        /\ LET r == FConfigCacheIniRemove(OtherFiles, ConfigFiles, Filename)
           IN /\ OtherFiles' = r.OtherFiles
              /\ ConfigFiles' = r.Files
              /\ lastCache' = CacheCall("Remove", Filename, (SetFindId(OtherFiles, Filename) # NoId), r.ret)
        /\ UNCHANGED <<mapVars, memVars, idVars, copyVars, lockVars, logVars, shaderVars>>

NextCache ==
    \/ CacheAddAct
    \/ CacheRemoveAct

SpecCache == Init /\ [][NextCache]_vars

\* ---- the shader permutation flags
\* The setting is changed in the game ini.
SetConfigAct ==
    \E C \in Configs :
        /\ C # GameIni
        /\ GameIni' = C
        /\ UNCHANGED <<bProjectSupportsCookedEditor, ConfigReads, ShaderCalls, lastShader,
                       mapVars, memVars, idVars, copyVars, lockVars, logVars, cacheVars>>

GetShaderPermutationFlagsAct ==
    \E WithEditorOnly \in BOOLEAN :
        /\ ShaderCalls < MaxCalls
        /\ LET r == GetShaderPermutationFlags(bProjectSupportsCookedEditor, GameIni, WithEditorOnly)
           IN /\ bProjectSupportsCookedEditor' = r.Static
              /\ ConfigReads' = ConfigReads + r.reads
              /\ lastShader' = ShaderCall("GetShaderPermutationFlags", WithEditorOnly, r.ret)
        /\ ShaderCalls' = ShaderCalls + 1
        /\ UNCHANGED <<GameIni, mapVars, memVars, idVars, copyVars, lockVars, logVars, cacheVars>>

NextShader ==
    \/ SetConfigAct
    \/ GetShaderPermutationFlagsAct

SpecShader == Init /\ [][NextShader]_vars

\* ------------------------------------------------ the allocator's instances
InitHeap ==
    /\ InitMap
    /\ Build \in Builds
    /\ InitMem
    /\ InitAux

\* The element counts and element sizes the resizes are called with: the
\* ends of the types' ranges and values whose products reach 2^8.
ElementCounts(IndexBits) == {-1, 0, 1, 2, 4, NumericLimitsMax(IndexBits)}
ElementSizes == {0, 1, 2, 64, MAX_int32, MAX_int32 + 1}

\* One call of ResizeAllocation on a live instance, Realloc included; the
\* static_assert admits only index types no wider than SIZE_T.
Resize(This, IndexBits, aligned, NumElements, NumBytesPerElement) ==
    /\ ~lastMem.fatal
    /\ Alive[This]
    /\ IndexBits <= Build.SizeTBits
    /\ LET r == IF aligned
                THEN ResizeAllocationAligned(AllocData[This], NumElements,
                         NumBytesPerElement, IndexBits, Build.SizeTBits)
                ELSE ResizeAllocation(AllocData[This], NumElements,
                         NumBytesPerElement, IndexBits, Build.SizeTBits)
       IN /\ lastMem' = [MemCall("ResizeAllocation", This) EXCEPT
                            !.IndexBits = IndexBits, !.NumElements = NumElements,
                            !.NumBytesPerElement = NumBytesPerElement, !.aligned = aligned,
                            !.had = (AllocData[This] # NullPtr), !.hook = r.hook,
                            !.realloc = r.realloc, !.bytes = r.bytes,
                            !.fatal = (r.hook /\ ~r.realloc)]
          /\ IF r.realloc
             THEN \E o \in MallocRealloc(Heap, AllocData[This], r.bytes) :
                     /\ AllocData' = [AllocData EXCEPT ![This] = o.ret]
                     /\ Heap' = o.M
             ELSE UNCHANGED <<AllocData, Heap>>
    /\ UNCHANGED <<Build, Alive, mapVars, auxVars>>

\* The resizes of one instance, over every index width, both overloads and
\* all the sampled arguments.
ResizeAllocationAct ==
    \E IndexBits \in IndexWidths, aligned \in BOOLEAN :
        \E NumElements \in ElementCounts(IndexBits), NumBytesPerElement \in ElementSizes :
            Resize(1, IndexBits, aligned, NumElements, NumBytesPerElement)

\* The resizes of every instance with a few arguments: to no elements and
\* to four, of a valid size and of the invalid size zero.
HeapResizeAct ==
    \E This \in Insts, IndexBits \in IndexWidths, aligned \in BOOLEAN :
        \E NumElements \in {0, 4}, NumBytesPerElement \in {0, 64} :
            Resize(This, IndexBits, aligned, NumElements, NumBytesPerElement)

\* A move into a live instance from a live instance, which may be the
\* same object.
MoveToEmptyAct ==
    /\ ~lastMem.fatal
    /\ \E This \in Insts, From \in Insts :
        /\ Alive[This] /\ Alive[From]
        /\ LET r == MoveToEmpty(AllocData, Heap, This, From, Build.bDoCheckSlow)
           IN /\ AllocData' = r.Data
              /\ Heap' = r.M
              /\ lastMem' = [MemCall("MoveToEmpty", This) EXCEPT
                                !.other = From, !.had = (AllocData[This] # NullPtr),
                                !.fatal = r.fatal]
    /\ UNCHANGED <<Build, Alive, mapVars, auxVars>>

\* The end of an instance's lifetime; the object's bytes are left as they
\* are.
DestructorAct ==
    /\ ~lastMem.fatal
    /\ \E This \in Insts :
        /\ Alive[This]
        /\ Alive' = [Alive EXCEPT ![This] = FALSE]
        /\ Heap' = AllocatorDestructor(AllocData, Heap, This)
        /\ lastMem' = [MemCall("Destructor", This) EXCEPT !.had = (AllocData[This] # NullPtr)]
    /\ UNCHANGED <<Build, AllocData, mapVars, auxVars>>

\* The default constructor, run in the place of an instance that has been
\* destroyed.
ConstructorAct ==
    /\ ~lastMem.fatal
    /\ \E This \in Insts :
        /\ ~Alive[This]
        /\ Alive' = [Alive EXCEPT ![This] = TRUE]
        /\ AllocData' = [AllocData EXCEPT ![This] = NullPtr]
        /\ lastMem' = MemCall("Constructor", This)
    /\ UNCHANGED <<Build, Heap, mapVars, auxVars>>

NextResize ==
    \/ ResizeAllocationAct
    \/ DestructorAct
    \/ ConstructorAct

SpecResize == InitHeap /\ [][NextResize]_vars

NextHeap ==
    \/ HeapResizeAct
    \/ MoveToEmptyAct
    \/ DestructorAct
    \/ ConstructorAct

SpecHeap == InitHeap /\ [][NextHeap]_vars

\* ------------------------------------------------------------------ claims
SortOps == {"KeySort", "KeyStableSort", "ValueSort", "ValueStableSort"}

\* The live slots that hold key k.
SlotsOf(P, k) == {i \in 1..Len(P.Data) : P.Data[i].alloc /\ Matches(P.Data[i].key, k)}

\* C1: after any sequence of Add calls every key present has exactly one
\* stored pair, and its value is the one passed to the most recent Add of
\* that key (lastAdd); a key not added since its last removal has no pair.
C1_MostRecentAdd ==
    \A k \in Keys :
        /\ Cardinality(SlotsOf(Pairs, k)) <= 1
        /\ {Pairs.Data[i].val : i \in SlotsOf(Pairs, k)} = lastAdd[k]

C1_Witness ==
    /\ lastOp.op = "Add"
    /\ lastOp.had
    /\ Num(Pairs) >= 2
    /\ Pairs.Data[lastOp.id].val = lastOp.val

\* C2: right after Add(k, v), Find(k) is a non-null pointer to a value equal to v.
C2_AddThenFind ==
    lastOp.op = "Add" =>
        /\ Find(Pairs, lastOp.key) # Null
        /\ Find(Pairs, lastOp.key).id # NoId
        /\ Find(Pairs, lastOp.key).val = lastOp.val

C2_Witness ==
    /\ lastOp.op = "Add"
    /\ ~lastOp.had
    /\ Num(Pairs) = MaxKey
    /\ Find(Pairs, lastOp.key).val = lastOp.val

\* C3: right after Remove(k), for k present or absent before, Find(k) is null.
C3_RemoveThenFind ==
    lastOp.op = "Remove" => Find(Pairs, lastOp.key) = Null

C3_Witness ==
    /\ lastOp.op = "Remove"
    /\ lastOp.ret = 1
    /\ Num(Pairs) >= 1
    /\ Find(Pairs, lastOp.key) = Null

\* C4: a FindOrAdd of key k right after a FindOrAdd of the same key returns a
\* reference to the same stored value (same slot, same value) and leaves
\* Num() unchanged, whether the first call found k or inserted it.
C4_FindOrAddTwice ==
    [][(lastOp.op = "FindOrAdd" /\ lastOp'.op = "FindOrAdd" /\ lastOp'.key = lastOp.key) =>
          /\ lastOp'.id = lastOp.id
          /\ lastOp'.ret = lastOp.ret
          /\ Num(Pairs') = Num(Pairs)]_vars

C4_Witness ==
    /\ lastOp.op = "FindOrAdd"
    /\ lastOp.rep
    /\ lastOp.had
    /\ Num(Pairs) >= 2

C6_CompareEqualIff ==
    OrderIndependentCompareEqual(Pairs, Other).ret <=>
        (Num(Pairs) = Num(Other) /\ Contents(Pairs) \subseteq Contents(Other))

C6_Witness ==
    /\ lastOp.op = "Compare"
    /\ lastOp.ret = 1
    /\ Num(Pairs) >= 2
    /\ IterPairs(Pairs) # IterPairs(Other)

\* C7: when the two maps differ in Num(), the comparison returns false having
\* visited no pair and made no Find call.
C7_CountMismatchNoScan ==
    (lastOp.op = "Compare" /\ Num(Pairs) # Num(Other)) =>
        (lastOp.ret = 0 /\ lastOp.iters = 0 /\ lastOp.finds = 0)

C7_Witness ==
    /\ lastOp.op = "Compare"
    /\ Num(Pairs) >= 1
    /\ Num(Other) > Num(Pairs)
    /\ Contents(Pairs) \subseteq Contents(Other)
    /\ lastOp.ret = 0

\* C8: a KeySort, KeyStableSort, ValueSort or ValueStableSort step leaves
\* Num() unchanged and every key findable before it findable after it with
\* the same value (and no other key findable).
C8_SortKeepsMappings ==
    [][lastOp'.op \in SortOps =>
          /\ Num(Pairs') = Num(Pairs)
          /\ \A k \in Keys :
                /\ (Find(Pairs', k) = Null) <=> (Find(Pairs, k) = Null)
                /\ Find(Pairs', k).val = Find(Pairs, k).val]_vars

C8_Witness ==
    /\ lastOp.op = "ValueSort"
    /\ lastOp.pred = "greater"
    /\ Num(Pairs) = MaxKey
    /\ IterPairs(Pairs)[1][1] > IterPairs(Pairs)[2][1]
    /\ IterPairs(Pairs)[1][2] > IterPairs(Pairs)[MaxKey][2]

\* C9: after a key sort, no pair's key is ordered by the comparator strictly
\* before the key of the pair visited just before it; after a value sort the
\* same holds of the values.
C9_SortedIteration ==
    LET it == IterPairs(Pairs)
    IN /\ lastOp.op \in {"KeySort", "KeyStableSort"} =>
            \A i \in 1..(Len(it) - 1) : ~Predicate(lastOp.pred, it[i + 1][1], it[i][1])
       /\ lastOp.op \in {"ValueSort", "ValueStableSort"} =>
            \A i \in 1..(Len(it) - 1) : ~Predicate(lastOp.pred, it[i + 1][2], it[i][2])

C9_Witness ==
    /\ lastOp.op = "KeySort"
    /\ lastOp.pred = "greater"
    /\ Num(Pairs) = MaxKey
    /\ IterPairs(Pairs)[1][1] = MaxKey

\* The spec's scenario: (a,1), (b,2), (a,3) added to an empty map.
ScenarioA == Add(Add(Add(EmptySet, 1, 1).Pairs, 2, 2).Pairs, 1, 3).Pairs

\* C10: an Add step increases Num() by one when its key was absent and leaves
\* it unchanged when the key was present; the scenario ends as {a:3, b:2}
\* with Num() = 2.
C10_AddCardinality ==
    [][/\ lastOp'.op = "Add" =>
             Num(Pairs') = Num(Pairs) + (IF Find(Pairs, lastOp'.key) = Null THEN 1 ELSE 0)
       /\ Num(ScenarioA) = 2
       /\ Contents(ScenarioA) = {<<1, 3>>, <<2, 2>>}]_vars

C10_Witness ==
    /\ lastOp.op = "Add"
    /\ lastOp.had
    /\ lastOp.key = 1
    /\ IterPairs(Pairs) = <<<<1, 2>>, <<2, 2>>>>
    /\ Pairs.Free = <<3>>

\* C11: a Remove(k) step returns 1 when k was stored and 0 when it was not
\* (so 0 on an empty map), Num() decreases by exactly the returned count, and
\* Find of every other key gives what it gave before.
C11_RemoveCount ==
    [][lastOp'.op = "Remove" =>
          /\ lastOp'.ret = (IF Find(Pairs, lastOp'.key) = Null THEN 0 ELSE 1)
          /\ Num(Pairs) = 0 => lastOp'.ret = 0
          /\ Num(Pairs') = Num(Pairs) - lastOp'.ret
          /\ \A j \in Keys \ {lastOp'.key} : Find(Pairs', j) = Find(Pairs, j)]_vars

C11_Witness ==
    /\ lastOp.op = "Remove"
    /\ lastOp.ret = 0
    /\ lastOp.key = 2
    /\ Num(Pairs) = 2
    /\ Find(Pairs, 3) # Null
    /\ Len(Pairs.Free) >= 1

RECURSIVE AddDistinct(_, _)
AddDistinct(P, m) == IF m = 0 THEN P ELSE Add(AddDistinct(P, m - 1), m, 1).Pairs

ScenarioCReserved ==
    LET R == Reserve(EmptySet, 100)
    IN GetAllocatedSize(R, ResizeGrow(0, Len(R.Data)))

ScenarioCShrunk ==
    LET R == Reserve(EmptySet, 100)
        A == AddDistinct(R, 10)
        Z == Shrink(A)
    IN GetAllocatedSize(Z, ResizeShrink(ResizeGrow(ResizeGrow(0, Len(R.Data)), Len(A.Data)),
                                        Len(Z.Data)))

\* C13: when Reserve(n) on a map without elements is followed by m <= n
\* insertions of distinct keys and then Shrink(), the allocated size after the
\* Shrink is at most the allocated size right after the Reserve; so it is in
\* the scenario with n = 100 and m = 10.
C13_ReserveShrink ==
    [][/\ (InReserveRun /\ lastOp'.op = "Shrink") =>
             GetAllocatedSize(Pairs', ArrayMax') <= lastOp.ret
       /\ ScenarioCShrunk <= ScenarioCReserved]_vars

C13_Witness ==
    /\ lastOp.op = "Shrink"
    /\ lastOp.had
    /\ Num(Pairs) = MaxCmpKey
    /\ ArrayMax = MaxCmpKey
    /\ lastOp.ret < GetAllocatedSize(Reserve(EmptySet, MaxReserve), FirstGrow)

\* C14: a FindRef(k) step returns the stored value when k is present and the
\* default value when it is absent, and leaves the map as it was: same
\* Num(), same result of Find for every key, k not inserted.
C14_FindRef ==
    [][lastOp'.op = "FindRef" =>
          /\ ~lastOp'.fatal
          /\ lastOp'.ret = (IF Find(Pairs, lastOp'.key) = Null THEN DefaultValue
                            ELSE Find(Pairs, lastOp'.key).val)
          /\ Num(Pairs') = Num(Pairs)
          /\ \A k \in Keys : Find(Pairs', k) = Find(Pairs, k)
          /\ Pairs' = Pairs]_vars

C14_Witness ==
    /\ lastOp.op = "FindRef"
    /\ lastOp.ret = DefaultValue
    /\ Find(Pairs, lastOp.key) = Null
    /\ Num(Pairs) = MaxKey - 1
    /\ Len(Pairs.Free) >= 1

\* C15 as stated: FindChecked(k) returns a reference to the value Find(k)
\* points to when k is present, and when k is absent it raises a fatal
\* assertion instead of returning.
C15_FindCheckedAlwaysFatal ==
    lastOp.op = "FindChecked" =>
        IF Find(Pairs, lastOp.key) # Null
        THEN /\ ~lastOp.fatal
             /\ lastOp.id = Find(Pairs, lastOp.key).id
             /\ lastOp.ret = Find(Pairs, lastOp.key).val
        ELSE lastOp.fatal

\* C15, amended: FindChecked(k) returns a reference to the value Find(k)
\* points to when k is present; when k is absent and checks are compiled
\* into the build, it raises a fatal assertion instead of returning.
C15_FindCheckedFatalWithChecks ==
    lastOp.op = "FindChecked" =>
        IF Find(Pairs, lastOp.key) # Null
        THEN /\ ~lastOp.fatal
             /\ lastOp.id = Find(Pairs, lastOp.key).id
             /\ lastOp.ret = Find(Pairs, lastOp.key).val
        ELSE lastOp.checks => lastOp.fatal

C15_Witness ==
    /\ lastOp.op = "FindChecked"
    /\ lastOp.checks
    /\ lastOp.fatal
    /\ Find(Pairs, lastOp.key) = Null
    /\ Num(Pairs) >= 1

\* The positions, in full-traversal order, of the pairs whose value is v.
PositionsOf(P, v) == {i \in 1..Len(IterPairs(P)) : IterPairs(P)[i][2] = v}

\* C16: FindKey(value) returns null exactly when no stored pair has that
\* value, and otherwise a pointer to the key of the first pair, in
\* full-traversal order, that has it; the table state and the value
\* determine the result.
C16_FindKeyFirstMatch ==
    lastOp.op = "FindKey" =>
        LET pos == PositionsOf(Pairs, lastOp.val)
        IN /\ (lastOp.id = NoId) <=> (pos = {})
           /\ pos # {} =>
                 LET first == CHOOSE i \in pos : \A j \in pos : i <= j
                 IN /\ lastOp.key = IterPairs(Pairs)[first][1]
                    /\ lastOp.id = LiveIds(Pairs)[first]
                    /\ Pairs.Data[lastOp.id].val = lastOp.val
           /\ FindKey(Pairs, lastOp.val) = [id |-> lastOp.id, key |-> lastOp.key]

C16_Witness ==
    /\ lastOp.op = "FindKey"
    /\ lastOp.id # NoId
    /\ Cardinality(PositionsOf(Pairs, lastOp.val)) >= 2
    /\ \E i \in PositionsOf(Pairs, lastOp.val) : IterPairs(Pairs)[i][1] < lastOp.key
    /\ lastOp.id > 1

\* C17: a FilterByPredicate step returns a map holding exactly the pairs of
\* the source that satisfy the predicate, each findable under its key with
\* its value, and leaves the source as it was.
C17_FilterByPredicate ==
    [][lastOp'.op = "FilterByPredicate" =>
          LET R == lastOp'.out
              kept == {pr \in Contents(Pairs) : Pred(lastOp'.pred, pr[1], pr[2])}
          IN /\ Contents(R) = kept
             /\ Num(R) = Cardinality(kept)
             /\ \A k \in Keys :
                   Find(R, k).val = (IF <<k, Find(Pairs, k).val>> \in kept
                                     THEN Find(Pairs, k).val ELSE Null.val)
             /\ Num(Pairs') = Num(Pairs)
             /\ \A k \in Keys : Find(Pairs', k) = Find(Pairs, k)
             /\ Pairs' = Pairs]_vars

C17_Witness ==
    /\ lastOp.op = "FilterByPredicate"
    /\ lastOp.pred = "evenSum"
    /\ Num(Pairs) = MaxKey
    /\ Num(lastOp.out) = 2
    /\ Len(Pairs.Free) >= 1
    /\ IterPairs(lastOp.out)[1][1] > IterPairs(lastOp.out)[2][1]

\* C18: a Reset step leaves no element (Num() = 0, Find null for every key)
\* and the allocated size as it was before the step.
C18_ResetKeepsAllocation ==
    [][lastOp'.op = "Reset" =>
          /\ Num(Pairs') = 0
          /\ \A k \in Keys : Find(Pairs', k) = Null
          /\ GetAllocatedSize(Pairs', ArrayMax') = GetAllocatedSize(Pairs, ArrayMax)]_vars

C18_Witness ==
    /\ lastOp.op = "Reset"
    /\ lastOp.had
    /\ Num(Pairs) = 0
    /\ ArrayMax >= FirstGrow
    /\ lastOp.ret = GetAllocatedSize(Pairs, ArrayMax)
    /\ lastOp.ret > AllocatorGetAllocatedSize(ArrayMax, ElementBytes)

\* C19: a CompactStable step, after any Adds and Removes, leaves no dead
\* slot (GetMaxIndex() = Num()) and full traversal visits the same pairs in
\* the same order as before the step.
C19_CompactStable ==
    [][lastOp'.op = "CompactStable" =>
          /\ GetMaxIndex(Pairs') = Num(Pairs')
          /\ Len(Pairs'.Free) = 0
          /\ IterPairs(Pairs') = IterPairs(Pairs)]_vars

C19_Witness ==
    /\ lastOp.op = "CompactStable"
    /\ lastOp.ret = MaxKey + 1
    /\ Num(Pairs) = MaxKey - 1
    /\ GetMaxIndex(Pairs) = MaxKey - 1
    /\ IterPairs(Pairs)[1][1] > IterPairs(Pairs)[2][1]

\* C20: a RemoveCurrent step runs no Relax pass; no pass has run while the
\* iterator is alive; the destruction step runs exactly one pass when at
\* least one RemoveCurrent was made through the iterator and it was created
\* with rehash-on-removal required, and none otherwise.
C20_DeferredRelax ==
    [][/\ lastOp'.op = "RemoveCurrent" =>
             (It'.relaxed = It.relaxed /\ Pairs'.HashSize = Pairs.HashSize)
       /\ It'.live => It'.relaxed = 0
       /\ lastOp'.op = "~TIterator" =>
             It'.relaxed = (IF It.removals >= 1 /\ It.bRequiresRehashOnRemoval THEN 1 ELSE 0)]_vars

C20_Witness ==
    /\ lastOp.op = "~TIterator"
    /\ It.removals >= 1
    /\ It.bRequiresRehashOnRemoval
    /\ It.relaxed = 1
    /\ Num(Pairs) >= 1
    /\ Len(Pairs.Free) >= 1

\* C21: every call of ResizeAllocation (either overload, the instance holding
\* a block or not) whose NumElements is negative, whose NumBytesPerElement is
\* zero, or whose product NumElements * NumBytesPerElement does not fit
\* SIZE_T, invokes the fatal hook OnInvalidSizedHeapAllocatorNum.
C21_InvalidResizeInvokesHook ==
    lastMem.op = "ResizeAllocation" =>
        ((\/ lastMem.NumElements < 0
          \/ lastMem.NumBytesPerElement = 0
          \/ lastMem.NumElements * lastMem.NumBytesPerElement >= 2 ^ Build.SizeTBits)
         => lastMem.hook)

\* C22: a resize that invokes the fatal hook does not reach Realloc: no
\* Realloc is issued, the instance's pointer and the memory subsystem are
\* as before, and the process has ended.
C22_InvalidResizeNoRealloc ==
    [][(lastMem'.op = "ResizeAllocation" /\ lastMem'.hook) =>
          /\ ~lastMem'.realloc
          /\ lastMem'.fatal
          /\ AllocData' = AllocData
          /\ Heap' = Heap]_vars

\* An invalid resize of an instance that holds a block
C22_Witness ==
    /\ lastMem.op = "ResizeAllocation"
    /\ lastMem.hook
    /\ lastMem.had
    /\ lastMem.NumElements > 0
    /\ AllocData[lastMem.inst] # NullPtr

\* C23: for every index width and every resize that passes the test, the
\* byte count handed to Realloc is the product NumElements *
\* NumBytesPerElement itself, not the product modulo 2^width of SIZE_T.
C23_ByteCountIsProduct ==
    (lastMem.op = "ResizeAllocation" /\ lastMem.realloc /\ ~lastMem.hook) =>
        lastMem.bytes = lastMem.NumElements * lastMem.NumBytesPerElement

\* No two live instances hold the same block.
NoSharedBlock ==
    \A i \in Insts, j \in Insts :
        (i # j /\ Alive[i] /\ Alive[j] /\ AllocData[i] # NullPtr) => AllocData[i] # AllocData[j]

\* C24: after This.MoveToEmpty(Other), This and Other distinct, This holds
\* the block Other held and Other holds none; and no two live instances ever
\* hold the same block.
C24_MoveTransfersBlock ==
    [][/\ (lastMem'.op = "MoveToEmpty" /\ lastMem'.inst # lastMem'.other /\ ~lastMem'.fatal) =>
            /\ AllocData'[lastMem'.inst] = AllocData[lastMem'.other]
            /\ ~HasAllocation(AllocData', lastMem'.other)
       /\ NoSharedBlock']_vars

\* A move of a block between two instances, both live afterwards
C24_Witness ==
    /\ lastMem.op = "MoveToEmpty"
    /\ lastMem.inst # lastMem.other
    /\ HasAllocation(AllocData, lastMem.inst)
    /\ ~HasAllocation(AllocData, lastMem.other)
    /\ AllocData[lastMem.inst] \in Heap.Live

\* C25 as stated: in a build with the debug checks, MoveToEmpty on a
\* destination that already holds a block is rejected by the check.
C25_MoveIntoHeldRejected ==
    (lastMem.op = "MoveToEmpty" /\ lastMem.had /\ Build.bDoCheckSlow) => lastMem.fatal

\* C25 amended: the debug-build check of a move rejects exactly the move of
\* an instance into itself; a move into a destination that holds a block
\* is carried out: the destination's block is freed and the source's block
\* taken over.
C25_MoveIntoHeldFrees ==
    [][lastMem'.op = "MoveToEmpty" =>
          /\ lastMem'.fatal <=> (Build.bDoCheckSlow /\ lastMem'.inst = lastMem'.other)
          /\ (lastMem'.had /\ lastMem'.inst # lastMem'.other) =>
                /\ AllocData[lastMem'.inst] \notin Heap'.Live
                /\ AllocData'[lastMem'.inst] = AllocData[lastMem'.other]
                /\ AllocData'[lastMem'.other] = NullPtr]_vars

\* A move, in a build with the checks, into a destination that held a block
C25_Witness ==
    /\ lastMem.op = "MoveToEmpty"
    /\ lastMem.had
    /\ lastMem.inst # lastMem.other
    /\ Build.bDoCheckSlow
    /\ ~lastMem.fatal
    /\ HasAllocation(AllocData, lastMem.inst)

\* The blocks held by the live instances
HeldBlocks == {AllocData[i] : i \in {j \in Insts : Alive[j]}} \ {NullPtr}

\* C26: over any sequence of resizes, moves and destructor calls, no block
\* is freed twice, every block handed out and not yet freed is held by a
\* live instance, and no block is left once every instance is destroyed.
C26_BlocksReleasedOnce ==
    /\ ~Heap.bad
    /\ Heap.Live = HeldBlocks
    /\ (\A i \in Insts : ~Alive[i]) => Heap.Live = {}

\* The last instance destroyed, giving back its block
C26_Witness ==
    /\ lastMem.op = "Destructor"
    /\ lastMem.had
    /\ \A i \in Insts : ~Alive[i]
    /\ Heap.Live = {}

\* C27 as stated: across an Add or Remove of another key an identifier of a
\* stored pair stays valid and Get returns the same pair; the identifier of
\* a removed pair is invalid, and is not handed out to a newly added pair
\* before a compaction.
C27_IdStableNotReused ==
    [][/\ lastOp'.op \in {"Add", "Remove"} =>
            \A id \in 1..Len(Pairs.Data) :
                (IsValidId(Pairs, id) /\ Get(Pairs, id)[1] # lastOp'.key) =>
                    (IsValidId(Pairs', id) /\ Get(Pairs', id) = Get(Pairs, id))
       /\ (lastOp'.op = "Remove" /\ lastOp'.id # NoId) => ~IsValidId(Pairs', lastOp'.id)
       /\ (lastOp'.op = "Add" /\ ~lastOp'.had) => lastOp'.id \notin Retired]_vars

\* C27 amended: across an Add or Remove of another key an identifier of a
\* stored pair stays valid and Get returns the same pair; the identifier of
\* a removed pair is invalid from the removal on, and it becomes valid again
\* only by being handed out to a later Add, which needs no compaction.
C27_IdStableUntilReused ==
    [][/\ lastOp'.op \in {"Add", "Remove"} =>
            \A id \in 1..Len(Pairs.Data) :
                (IsValidId(Pairs, id) /\ Get(Pairs, id)[1] # lastOp'.key) =>
                    (IsValidId(Pairs', id) /\ Get(Pairs', id) = Get(Pairs, id))
       /\ (lastOp'.op = "Remove" /\ lastOp'.id # NoId) => ~IsValidId(Pairs', lastOp'.id)
       /\ lastOp'.op # "Compact" =>
            \A id \in Retired :
                IsValidId(Pairs', id) => (lastOp'.op = "Add" /\ lastOp'.id = id)
       /\ \A id \in Retired' : ~IsValidId(Pairs', id)]_vars

\* A new key stored in the slot of a removed pair, below a stored pair
C27_Witness ==
    /\ lastOp.op = "Add"
    /\ ~lastOp.had
    /\ lastOp.id \notin Retired
    /\ \E id \in 1..Len(Pairs.Data) : id > lastOp.id /\ IsValidId(Pairs, id)

\* The lowest-numbered free slot
LowestFree(P) == CHOOSE f \in {P.Free[i] : i \in 1..Len(P.Free)} :
                     \A i \in 1..Len(P.Free) : f <= P.Free[i]

\* C28: SortFreeList changes no slot, key or value of a stored pair, and the
\* Add of a new key right after a SortFreeList that found a free slot stores
\* the pair in the lowest-numbered free slot.
C28_SortFreeListLowestSlot ==
    [][/\ lastOp'.op = "SortFreeList" =>
            /\ Pairs'.Data = Pairs.Data
            /\ \A k \in Keys : Find(Pairs', k) = Find(Pairs, k)
       /\ (lastOp.op = "SortFreeList" /\ lastOp.had /\ lastOp'.op = "Add" /\ ~lastOp'.had) =>
            /\ lastOp'.id = LowestFree(Pairs)
            /\ Get(Pairs', lastOp'.id) = <<lastOp'.key, lastOp'.val>>]_vars

\* A new key stored right after a SortFreeList that reordered the free list,
\* in a slot below another free slot
C28_Witness ==
    /\ lastOp.op = "Add"
    /\ lastOp.after = "SortFreeList"
    /\ ~lastOp.had
    /\ Len(Pairs.Free) >= 1
    /\ \A i \in 1..Len(Pairs.Free) : lastOp.id < Pairs.Free[i]
    /\ Num(Pairs) = 1

\* The other of the two maps
OtherMap(m) == CHOOSE n \in MapIds : n # m

\* C29: right after a copy construction or copy assignment the two maps are
\* OrderIndependentCompareEqual and the source is as it was; an Add, Remove
\* or Reset on one map leaves Num and the mappings of the other unchanged;
\* a move construction or move assignment leaves the destination with all
\* the pairs of the source and the source empty.
C29_CopyIndependentMoveEmpties ==
    [][/\ lastMap'.op \in {"CopyConstruct", "CopyAssign"} =>
            /\ OrderIndependentCompareEqual(Elements(MapData', Store', lastMap'.map),
                                            Elements(MapData', Store', lastMap'.from)).ret
            /\ Elements(MapData', Store', lastMap'.from) = Elements(MapData, Store, lastMap'.from)
       /\ lastMap'.op \in {"Add", "Remove", "Reset"} =>
            LET o == OtherMap(lastMap'.map)
            IN /\ Num(Elements(MapData', Store', o)) = Num(Elements(MapData, Store, o))
               /\ Contents(Elements(MapData', Store', o)) = Contents(Elements(MapData, Store, o))
       /\ lastMap'.op \in {"MoveConstruct", "MoveAssign"} =>
            /\ Contents(Elements(MapData', Store', lastMap'.map))
                  = Contents(Elements(MapData, Store, lastMap'.from))
            /\ Num(Elements(MapData', Store', lastMap'.map))
                  = Num(Elements(MapData, Store, lastMap'.from))
            /\ Num(Elements(MapData', Store', lastMap'.from)) = 0]_vars

\* A map with a removed pair in front of its pairs has been copied: the copy
\* holds the same pairs in a storage of its own, laid out differently
C29_Witness ==
    /\ lastMap.op \in {"CopyConstruct", "CopyAssign"}
    /\ Num(Elements(MapData, Store, lastMap.from)) > 0
    /\ Elements(MapData, Store, lastMap.map) # Elements(MapData, Store, lastMap.from)
    /\ MapData[lastMap.map] # MapData[lastMap.from]

\* The final map and the results are those of the two calls run one after
\* the other, first before second, on the map the threads found.
SameAsSequential(first, second) ==
    LET r == Sequential(Start, Thread[first], Thread[second])
    IN /\ Num(Table) = Num(r.Pairs)
       /\ Contents(Table) = Contents(r.Pairs)
       /\ Thread[first].ret = r.first
       /\ Thread[second].ret = r.second

\* C30: when the threads compute the key hash outside the external lock and
\* run AddByHash, FindByHash, RemoveByHash and FindOrAddByHash while holding
\* it, the final map and the result of every call are those of the same calls
\* in some sequential order: no pair is lost, stored twice or corrupted.
C30_LockedCallsLinearizable ==
    (\A t \in Threads : Thread[t].pc = "done") =>
        /\ SameAsSequential(1, 2) \/ SameAsSequential(2, 1)
        /\ Cardinality({p[1] : p \in Contents(Table)}) = Num(Table)

\* Both threads hashed a key the map did not hold before either took the
\* lock's turn, both called FindOrAddByHash, and the first thread was handed
\* the value the second one had stored
C30_Witness ==
    /\ \A t \in Threads : Thread[t].pc = "done" /\ Thread[t].op = "FindOrAddByHash"
    /\ Thread[1].key = Thread[2].key
    /\ Find(Start, Thread[1].key) = Null
    /\ Thread[1].ret.val = 2
    /\ ~SameAsSequential(1, 2)

\* C31: at every verbosity level, UE_CLOG evaluates its condition only when
\* the log category is active at that level, that is compiled in and not
\* suppressed.
C31_ConditionOnlyWhenActive ==
    lastLog.op = "UE_CLOG" /\ lastLog.evaluated => lastLog.active

\* C32: FindOrAdd(k, d) on a map that holds k returns the value stored and
\* leaves it and Num() as they were, also when d differs from it; on a map
\* without k it inserts the one pair (k, d), or (k, default value) in the
\* form without a value, and Num() grows by one.
C32_FindOrAddFrame ==
    [][lastOp'.op \in {"FindOrAddValue", "FindOrAddKey"} =>
          LET k == lastOp'.key
              d == lastOp'.val
          IN IF Find(Pairs, k) # Null
             THEN /\ lastOp'.ret = Find(Pairs, k).val
                  /\ Find(Pairs', k) = Find(Pairs, k)
                  /\ Num(Pairs') = Num(Pairs)
                  /\ Contents(Pairs') = Contents(Pairs)
             ELSE /\ lastOp'.ret = d
                  /\ Num(Pairs') = Num(Pairs) + 1
                  /\ Contents(Pairs') = Contents(Pairs) \cup {<<k, d>>}
                  /\ lastOp'.op = "FindOrAddKey" => d = DefaultValue]_vars

\* FindOrAdd found its key stored with a value other than the default passed
C32_Witness ==
    /\ lastOp.op = "FindOrAddValue"
    /\ lastOp.had
    /\ lastOp.val # lastOp.ret
    /\ Num(Pairs) >= 2

C34_AddReplacesInPlace ==
    [][lastOp'.op = "KeyObjectAdd" =>
          \A id \in 1..Len(Pairs.Data) :
              (Pairs.Data[id].alloc /\ Matches(Pairs.Data[id].key, lastOp'.key)) =>
                  /\ lastOp'.id = id
                  /\ Pairs'.Data[id].alloc
                  /\ Pairs'.Data[id].key = Pairs.Data[id].key
                  /\ Pairs'.Data[id].val = lastOp'.val
                  /\ \A j \in 1..Len(Pairs.Data) : j # id => Pairs'.Data[j] = Pairs.Data[j]
                  /\ Num(Pairs') = Num(Pairs)]_vars

\* Add was passed a key object other than the equal one stored, and a new
\* value: the stored object is still there, in a slot that is not the first
C34_Witness ==
    /\ lastOp.op = "KeyObjectAdd"
    /\ lastOp.had
    /\ Pairs.Data[lastOp.id].key # lastOp.key
    /\ Pairs.Data[lastOp.id].val = lastOp.val
    /\ lastOp.id > 1

\* C35: ResizeAllocation with NumElements == 0 on an allocator that holds no
\* block does nothing: Realloc(nullptr, 0) is not issued, nothing is
\* reported and the allocator holds no block afterwards.
C35_EmptyResizeIsNoop ==
    [][(/\ lastMem'.op = "ResizeAllocation"
        /\ ~lastMem'.had
        /\ lastMem'.NumElements = 0) =>
          /\ ~lastMem'.realloc
          /\ ~lastMem'.hook
          /\ ~lastMem'.fatal
          /\ AllocData' = AllocData
          /\ Heap' = Heap
          /\ ~HasAllocation(AllocData', lastMem'.inst)]_vars

\* An instance that holds no block was resized to no elements, of a valid
\* size, through the overload without alignment
C35_Witness ==
    /\ lastMem.op = "ResizeAllocation"
    /\ ~lastMem.had
    /\ lastMem.NumElements = 0
    /\ lastMem.NumBytesPerElement > 0
    /\ ~lastMem.aligned
    /\ ~HasAllocation(AllocData, lastMem.inst)

\* C36: OrderIndependentCompareEqual is symmetric and reflexive on
\* single-value maps: A compared with B gives what B compared with A gives,
\* and A compared with itself gives true, although only the keys of the
\* first map are looked up in the second.
C36_CompareSymmetricReflexive ==
    /\ OrderIndependentCompareEqual(Pairs, Other).ret
          = OrderIndependentCompareEqual(Other, Pairs).ret
    /\ OrderIndependentCompareEqual(Pairs, Pairs).ret
    /\ OrderIndependentCompareEqual(Other, Other).ret
    /\ lastOp.op = "Compare" =>
          (lastOp.ret = 1) = OrderIndependentCompareEqual(Other, Pairs).ret

\* Two maps holding the same pairs in different slots were compared and
\* found equal
C36_Witness ==
    /\ lastOp.op = "Compare"
    /\ lastOp.ret = 1
    /\ Num(Pairs) >= 2
    /\ Pairs # Other
    /\ IterPairs(Pairs) # IterPairs(Other)

\* C37: an iterator obtained through CreateIterator() is constructed with
\* rehash-on-removal not required, and however many RemoveCurrent calls are made
\* through it, neither they nor its destruction run Pairs.Relax; a pass has
\* run only for an iterator constructed explicitly with
\* bInRequiresRehashOnRemoval true.
C37_CreateIteratorNeverRelaxes ==
    /\ It.via = "CreateIterator" => (~It.bRequiresRehashOnRemoval /\ It.relaxed = 0)
    /\ It.relaxed > 0 => (It.via = "TIterator" /\ It.bRequiresRehashOnRemoval)

\* An iterator from CreateIterator() has been destroyed after two removals.
C37_Witness ==
    /\ lastOp.op = "~TIterator"
    /\ It.via = "CreateIterator"
    /\ ~It.live
    /\ It.removals >= 2
    /\ It.relaxed = 0
    /\ Len(Pairs.Free) >= 2

\* C38: after any sequence of FConfigCacheIni::Add and FConfigCacheIni::Remove
\* calls, every FConfigFile object allocated by Add is either the value of
\* exactly one entry of OtherFiles (and not deleted) or has been deleted
\* exactly once (and is the value of no entry); a Remove of an absent
\* filename returns 0 and deletes nothing.
C38_FilesOwnedOrDeletedOnce ==
    /\ \A p \in 1..Len(ConfigFiles) :
           \/ Cardinality(EntriesOf(OtherFiles, p)) = 1 /\ ConfigFiles[p] = 0
           \/ EntriesOf(OtherFiles, p) = {} /\ ConfigFiles[p] = 1
    /\ (lastCache.op = "Remove" /\ ~lastCache.had) => lastCache.ret = 0

\* C39: GetShaderPermutationFlags reads the bSupportCookedEditor setting at
\* most once, on its first call; every call returns HasEditorOnlyData exactly
\* when the value cached by the first call is true or
\* LayoutParams.WithEditorOnly() is true, and None otherwise; a change of the
\* setting after the first call changes neither the cached value nor any later
\* result.
C39_ConfigReadOnceAndCached ==
    [][/\ ConfigReads' <= 1
       /\ ShaderCalls' # ShaderCalls =>
             /\ ConfigReads' - ConfigReads = (IF ShaderCalls = 0 THEN 1 ELSE 0)
             /\ bProjectSupportsCookedEditor'.initialized
             /\ ShaderCalls = 0 =>
                   bProjectSupportsCookedEditor'.value = (GameIni.found /\ GameIni.value)
             /\ ShaderCalls > 0 => bProjectSupportsCookedEditor' = bProjectSupportsCookedEditor
             /\ lastShader'.ret = (IF \/ bProjectSupportsCookedEditor'.value
                                      \/ lastShader'.WithEditorOnly
                                   THEN HasEditorOnlyData ELSE None)
       /\ ShaderCalls' = ShaderCalls =>
             /\ bProjectSupportsCookedEditor' = bProjectSupportsCookedEditor
             /\ ConfigReads' = ConfigReads]_vars

\* A later call returned None although the setting had been switched on after
\* the first call.
C39_Witness ==
    /\ lastShader.op = "GetShaderPermutationFlags"
    /\ ShaderCalls >= 2
    /\ ConfigReads = 1
    /\ ~bProjectSupportsCookedEditor.value
    /\ GameIni.found /\ GameIni.value
    /\ ~lastShader.WithEditorOnly
    /\ lastShader.ret = None

====
